---------------------------- MODULE Spec2Model ----------------------------
(***************************************************************************)
(* Auto-threading core of the Discord bot: the in-memory RateLimitQueue,   *)
(* the thread decision functions (shouldCreateThread, generateThreadTitle) *)
(* and the thread service operations built on them.                        *)
(***************************************************************************)
EXTENDS Integers, Sequences, FiniteSets, TLC

\* ------------------------------------------------------------------ bounds
MaxTasks == 3        \* tasks ever submitted to the queue in one run
MaxRateLimits == 2   \* rate-limit failures one task may suffer
MaxLoops == 2        \* consumer-loop activations that could coexist

\* --------------------------------------------------------- program constants
InitialRetryDelay == 1000
InterTaskDelay == 100
MaxRetryDelay == 60000
RateLimitCode == 429

VARIABLES
  queue,        \* RateLimitQueue.queue: task ids, head first
  processing,   \* RateLimitQueue.processing
  retryDelay,   \* RateLimitQueue.retryDelay (ms)
  loops,        \* activations of processQueue: where each one is suspended
  tasks,        \* every task submitted so far and what became of it
  doneSeq,      \* task ids in the order their executions succeeded
  pure,         \* the last call of a pure function: its arguments and result
  msgs,         \* the platform's messages: guild, content, edits seen
  threads,      \* the thread of each message (a thread has its message's id)
  calls,        \* createThreadForMessage per message: captured variable, return value
  modal,        \* handleRenameModal per thread: where it is suspended
  cache,        \* FileConfigStore.cache: guild -> config object
  file,         \* configs/<guildId>.json
  sets,         \* the Set objects configs refer to (0: DEFAULT_CONFIG's)
  arrays,       \* the channel arrays configs refer to (0: DEFAULT_CONFIG's)
  cmd,          \* the config store's callers: the last command and what was stored
  clock,        \* the time in hours, and the hour of the last cron tick
  reminders,    \* ReminderService.reminders: the array, as ids of Reminder objects
  robjs,        \* the Reminder objects ever created, with what was done to each
  sweeps,       \* activations of processPendingReminders: list and position
  rcmd,         \* the last scheduleReminder / cancelReminder call and its effect
  userCompletions,  \* the Map userId -> { completions, timestamp }
  subs,         \* activations of handleModalSubmit: where each one is suspended
  roles,        \* per member: the builder role, how it was granted, the forms posted
  ucmd,         \* the last step of the completion tracking and what it did
  ping,         \* the last /ping-intro command: invoker, targets, flows started
  ops,          \* calls of FileConfigStore.get / update: where each one is suspended
  heap          \* the config objects by identity: which one the cache holds, and
                \* the objects the cache holds no longer

qvars == <<queue, processing, retryDelay, loops, tasks, doneSeq>>
tvars == <<threads, calls>>
cvars == <<cache, file, sets, arrays>>
rvars == <<clock, reminders, robjs, sweeps, rcmd>>
uvars == <<userCompletions, subs, roles, ucmd, ping>>
svars == <<ops, heap>>
xvars == <<cmd, rvars, uvars, svars>>
\* the auto-thread side: queue, thread service, config store and its callers
basevars == <<queue, processing, retryDelay, loops, tasks, doneSeq, pure, msgs, threads, calls,
              modal, cache, file, sets, arrays, cmd, svars>>
\* everything but the reminder service
nonrvars == <<basevars, uvars>>
ovars == <<pure, msgs, modal, cache, file, sets, arrays, xvars>>
vars == <<queue, processing, retryDelay, loops, tasks, doneSeq, pure, msgs, threads, calls,
          modal, cache, file, sets, arrays, cmd, clock, reminders, robjs, sweeps, rcmd,
          userCompletions, subs, roles, ucmd, ping, ops, heap>>

Guilds == {1, 2}
TaskIds == 1..MaxTasks
LoopIds == 1..MaxLoops

Min(a, b) == IF a < b THEN a ELSE b

\* ------------------------------------------------------------------ queue
\* starts: message.startThread calls of the task that resolved; replyFailed:
\* the thread.send of the task's closure has rejected
NoTask == [kind |-> "none", st |-> "none", guild |-> 0, attempts |-> 0, limited |-> 0,
           msg |-> 0, title |-> <<>>, phase |-> "call", starts |-> 0, replyFailed |-> FALSE]
\* retryAfter: err.retryAfter of the failure being handled (0: absent)
IdleLoop == [pc |-> "idle", task |-> 0, ms |-> 0, retryAfter |-> 0]

\* errors a task's promise can reject with: code, status and retryAfter are the
\* fields processQueue reads (0 stands for an absent field)
Errors == [code : {0, RateLimitCode, 50013}, status : {0, RateLimitCode, 403}, retryAfter : {0, 2}]

IsRateLimit(err) == err.code = RateLimitCode \/ err.status = RateLimitCode

NextTaskId == CHOOSE t \in TaskIds : tasks[t].kind = "none" /\ \A u \in TaskIds : u < t => tasks[u].kind # "none"
CanSubmit == \E t \in TaskIds : tasks[t].kind = "none"

\* the while loop of processQueue from its condition on, for the activation l,
\* with q and tk the queue and task table as the caller left them
LoopStep(l, q, tk, proc) ==
  IF q = <<>>
  THEN /\ processing' = FALSE
       /\ loops' = [loops EXCEPT ![l] = IdleLoop]
       /\ queue' = q
       /\ tasks' = tk
  ELSE /\ processing' = proc
       /\ queue' = Tail(q)
       /\ loops' = [loops EXCEPT ![l] = [pc |-> "task", task |-> Head(q), ms |-> 0, retryAfter |-> 0]]
       /\ tasks' = [tk EXCEPT ![Head(q)].st = "running", ![Head(q)].attempts = @ + 1]

\* a variant that starts processQueue on every enqueue, ignoring the flag
Enqueue_AlwaysStarts(t, rec) ==
  /\ \E l \in LoopIds : loops[l].pc = "idle"
  /\ LET l == CHOOSE k \in LoopIds : loops[k].pc = "idle" /\ \A j \in LoopIds : j < k => loops[j].pc # "idle"
     IN LoopStep(l, Append(queue, t), [tasks EXCEPT ![t] = rec], TRUE)

\* a variant that only pushes and leaves the consumer as it is
Enqueue_PushOnly(t, rec) ==
  /\ queue' = Append(queue, t)
  /\ tasks' = [tasks EXCEPT ![t] = rec]
  /\ UNCHANGED <<processing, loops>>

\* enqueue(task): push, and start processQueue when no consumer is marked active
Enqueue(t, rec) ==
  LET q == Append(queue, t)
      tk == [tasks EXCEPT ![t] = rec]
  IN IF ~processing
     THEN /\ \E l \in LoopIds : loops[l].pc = "idle"
          /\ LET l == CHOOSE k \in LoopIds : loops[k].pc = "idle" /\ \A j \in LoopIds : j < k => loops[j].pc # "idle"
             IN LoopStep(l, q, tk, TRUE)
     ELSE /\ queue' = q
          /\ tasks' = tk
          /\ UNCHANGED <<processing, loops>>

\* some caller submits an opaque operation
EnqueueOp(g) ==
  /\ CanSubmit
  /\ Enqueue(NextTaskId, [NoTask EXCEPT !.kind = "op", !.st = "queued", !.guild = g])
  /\ UNCHANGED <<retryDelay, doneSeq, ovars, tvars>>

\* what a task's platform call does when it succeeds
ThreadBy(name) == [exists |-> TRUE, name |-> name, by |-> "create", human |-> FALSE]
NoThread == [exists |-> FALSE, name |-> <<>>, by |-> "none", human |-> FALSE]

\* the task's closure sends a reply after startThread: config.replyMessage && thread
SendsReply(t) == cache[tasks[t].guild].replyMessage.has /\ cache[tasks[t].guild].replyMessage.val # <<>>

\* the platform accepts the call the task t is awaiting
CallCanSucceed(t) == tasks[t].kind = "start" /\ tasks[t].phase = "call" => ~threads[tasks[t].msg].exists

CallEffect(t) ==
  CASE tasks[t].kind = "start" /\ tasks[t].phase = "call" ->
         /\ threads' = [threads EXCEPT ![tasks[t].msg] = ThreadBy(tasks[t].title)]
         /\ calls' = [calls EXCEPT ![tasks[t].msg].captured = TRUE]
    [] tasks[t].kind = "rename" ->
         /\ threads' = [threads EXCEPT ![tasks[t].msg].name = tasks[t].title, ![tasks[t].msg].by = "auto"]
         /\ UNCHANGED calls
    [] OTHER -> UNCHANGED tvars

\* message.startThread resolves in a task that goes on to send the reply
StartThreadResolves(l) ==
  /\ loops[l].pc = "task"
  /\ LET t == loops[l].task IN
       /\ tasks[t].kind = "start" /\ tasks[t].phase = "call"
       /\ SendsReply(t)
       /\ CallCanSucceed(t)
       /\ CallEffect(t)
       /\ tasks' = [tasks EXCEPT ![t].phase = "reply", ![t].starts = @ + 1]
  /\ UNCHANGED <<queue, processing, retryDelay, loops, doneSeq, ovars>>

\* await task() resolves: reset the delay and sleep the inter-task delay.
\* The task's last call succeeded, or it was the reply, whose failure the
\* closure catches.
TaskSucceeds(l) ==
  /\ loops[l].pc = "task"
  /\ LET t == loops[l].task IN
       /\ ~(tasks[t].kind = "start" /\ tasks[t].phase = "call" /\ SendsReply(t))
       /\ CallCanSucceed(t)
       /\ CallEffect(t)
       /\ tasks' = [tasks EXCEPT ![t].st = "ok",
                                 ![t].starts = IF tasks[t].kind = "start" /\ tasks[t].phase = "call"
                                               THEN @ + 1 ELSE @]
       /\ doneSeq' = Append(doneSeq, t)
  /\ retryDelay' = InitialRetryDelay
  /\ loops' = [loops EXCEPT ![l].pc = "delay", ![l].ms = InterTaskDelay]
  /\ UNCHANGED <<queue, processing, ovars>>

\* a variant without the .catch on thread.send: the rejection leaves the
\* closure, and processQueue re-queues the task when it is a rate-limit error
ReplyFails_Escapes(l, err) ==
  /\ loops[l].pc = "task"
  /\ tasks[loops[l].task].kind = "start" /\ tasks[loops[l].task].phase = "reply"
  /\ LET t == loops[l].task IN
       IF IsRateLimit(err)
       THEN /\ queue' = <<t>> \o queue
            /\ tasks' = [tasks EXCEPT ![t].st = "queued", ![t].phase = "call", ![t].replyFailed = TRUE]
            /\ loops' = [loops EXCEPT ![l].pc = "backoff", ![l].retryAfter = err.retryAfter,
                                      ![l].ms = IF err.retryAfter # 0 THEN err.retryAfter * 1000 ELSE retryDelay]
            /\ UNCHANGED <<processing, retryDelay, doneSeq, ovars, tvars>>
       ELSE /\ LoopStep(l, queue, [tasks EXCEPT ![t].st = "dropped", ![t].replyFailed = TRUE], processing)
            /\ UNCHANGED <<retryDelay, doneSeq, ovars, tvars>>

\* thread.send(replyText) rejects with err: the closure's .catch logs it, the
\* task resolves and processQueue goes on as after any task that succeeded
ReplyFails(l, err) ==
  /\ loops[l].pc = "task"
  /\ tasks[loops[l].task].kind = "start" /\ tasks[loops[l].task].phase = "reply"
  /\ tasks' = [tasks EXCEPT ![loops[l].task].st = "ok", ![loops[l].task].replyFailed = TRUE]
  /\ doneSeq' = Append(doneSeq, loops[l].task)
  /\ retryDelay' = InitialRetryDelay
  /\ loops' = [loops EXCEPT ![l].pc = "delay", ![l].ms = InterTaskDelay]
  /\ UNCHANGED <<queue, processing, ovars, tvars>>

\* a variant that re-queues the rate-limited task at the tail (push, not unshift)
TaskRateLimited_Tail(l, err) ==
  /\ loops[l].pc = "task"
  /\ tasks[loops[l].task].phase = "call"
  /\ IsRateLimit(err)
  /\ LET t == loops[l].task IN
       /\ tasks[t].limited < MaxRateLimits
       /\ queue' = Append(queue, t)
       /\ tasks' = [tasks EXCEPT ![t].st = "queued", ![t].limited = @ + 1]
  /\ loops' = [loops EXCEPT ![l].pc = "backoff", ![l].retryAfter = err.retryAfter,
                            ![l].ms = IF err.retryAfter # 0 THEN err.retryAfter * 1000 ELSE retryDelay]
  /\ UNCHANGED <<processing, retryDelay, doneSeq, ovars, tvars>>

\* await task() rejects with a rate-limit error: unshift the task and sleep
TaskRateLimited(l, err) ==
  /\ loops[l].pc = "task"
  /\ tasks[loops[l].task].phase = "call"
  /\ IsRateLimit(err)
  /\ LET t == loops[l].task IN
       /\ tasks[t].limited < MaxRateLimits
       /\ queue' = <<t>> \o queue
       /\ tasks' = [tasks EXCEPT ![t].st = "queued", ![t].limited = @ + 1]
  /\ loops' = [loops EXCEPT ![l].pc = "backoff", ![l].retryAfter = err.retryAfter,
                            ![l].ms = IF err.retryAfter # 0 THEN err.retryAfter * 1000 ELSE retryDelay]
  /\ UNCHANGED <<processing, retryDelay, doneSeq, ovars, tvars>>

\* a task that was rate-limited MaxRateLimits times is rate-limited once more:
\* the code puts no limit on the retries, the counters stop counting
TaskRateLimitedAgain(l, err) ==
  /\ loops[l].pc = "task"
  /\ tasks[loops[l].task].phase = "call"
  /\ IsRateLimit(err)
  /\ LET t == loops[l].task IN
       /\ tasks[t].limited = MaxRateLimits
       /\ queue' = <<t>> \o queue
       /\ tasks' = [tasks EXCEPT ![t].st = "queued", ![t].attempts = @ - 1]
  /\ loops' = [loops EXCEPT ![l].pc = "backoff", ![l].retryAfter = err.retryAfter,
                            ![l].ms = IF err.retryAfter # 0 THEN err.retryAfter * 1000 ELSE retryDelay]
  /\ UNCHANGED <<processing, retryDelay, doneSeq, ovars, tvars>>

\* a variant without the catch: the error ends processQueue where it stands
TaskFails_Rethrows(l, err) ==
  /\ loops[l].pc = "task"
  /\ tasks[loops[l].task].phase = "call"
  /\ ~IsRateLimit(err)
  /\ tasks' = [tasks EXCEPT ![loops[l].task].st = "dropped"]
  /\ loops' = [loops EXCEPT ![l] = IdleLoop]
  /\ UNCHANGED <<queue, processing, retryDelay, doneSeq, ovars, tvars>>

\* await task() rejects with any other error: log, drop, next iteration
TaskFails(l, err) ==
  /\ loops[l].pc = "task"
  /\ tasks[loops[l].task].phase = "call"
  /\ ~IsRateLimit(err)
  /\ LoopStep(l, queue, [tasks EXCEPT ![loops[l].task].st = "dropped"], processing)
  /\ UNCHANGED <<retryDelay, doneSeq, ovars, tvars>>

\* the inter-task sleep ends: next iteration
DelayDone(l) ==
  /\ loops[l].pc = "delay"
  /\ LoopStep(l, queue, tasks, processing)
  /\ UNCHANGED <<retryDelay, doneSeq, ovars, tvars>>

\* a variant that doubles the delay without a ceiling
BackoffDone_NoCeiling(l) ==
  /\ loops[l].pc = "backoff"
  /\ retryDelay' = retryDelay * 2
  /\ LoopStep(l, queue, tasks, processing)
  /\ UNCHANGED <<doneSeq, ovars, tvars>>

\* the backoff sleep ends: double the delay up to the ceiling, next iteration
BackoffDone(l) ==
  /\ loops[l].pc = "backoff"
  /\ retryDelay' = Min(retryDelay * 2, MaxRetryDelay)
  /\ LoopStep(l, queue, tasks, processing)
  /\ UNCHANGED <<doneSeq, ovars, tvars>>

InitQueue ==
  /\ queue = <<>>
  /\ processing = FALSE
  /\ retryDelay = InitialRetryDelay
  /\ loops = [l \in LoopIds |-> IdleLoop]
  /\ tasks = [t \in TaskIds |-> NoTask]
  /\ doneSeq = <<>>


\* ------------------------------------------------- strings (UTF-16 units)
\* a string is the sequence of its characters
Rep(c, n) == [i \in 1..n |-> c]
WhiteSpace == {" ", "\t"}

\* String.prototype.slice(0, n)
Slice(s, n) == SubSeq(s, 1, Min(n, Len(s)))

\* String.prototype.trim(): from the first to the last character that is not
\* white space
Trim(s) ==
  LET keep == {i \in 1..Len(s) : s[i] \notin WhiteSpace}
  IN IF keep = {} THEN <<>>
     ELSE SubSeq(s, CHOOSE i \in keep : \A j \in keep : i <= j,
                    CHOOSE i \in keep : \A j \in keep : j <= i)

\* a || b on strings: the empty string is falsy
OrElse(s, d) == IF s = <<>> THEN d ELSE s

MatchAt(s, i, pat) == i + Len(pat) - 1 <= Len(s) /\ SubSeq(s, i, i + Len(pat) - 1) = pat

\* the grave accent character, which a TLA+ string cannot hold
BackTick == "grave"

\* the text a replacement string stands for at the match s[i .. i+n-1]:
\* $$ is a dollar, $& the match, $` the text before it, $' the text after it
RECURSIVE Expand(_, _, _, _, _)
Expand(rep, k, s, i, n) ==
  LET special == {j \in k..(Len(rep) - 1) : rep[j] = "$" /\ rep[j + 1] \in {"$", "&", BackTick, "'"}}
  IN IF special = {} THEN SubSeq(rep, k, Len(rep))
     ELSE LET j == CHOOSE x \in special : \A y \in special : x <= y
          IN SubSeq(rep, k, j - 1)
             \o (CASE rep[j + 1] = "$" -> <<"$">>
                   [] rep[j + 1] = "&" -> SubSeq(s, i, i + n - 1)
                   [] rep[j + 1] = BackTick -> SubSeq(s, 1, i - 1)
                   [] OTHER -> SubSeq(s, i + n, Len(s)))
             \o Expand(rep, j + 2, s, i, n)

\* the rest of s from position i on, every match of pat replaced, matches
\* taken left to right without overlap
RECURSIVE ReplaceFrom(_, _, _, _)
ReplaceFrom(s, i, pat, rep) ==
  LET found == {j \in i..Len(s) : MatchAt(s, j, pat)}
  IN IF found = {} THEN SubSeq(s, i, Len(s))
     ELSE LET j == CHOOSE x \in found : \A y \in found : x <= y
          IN SubSeq(s, i, j - 1) \o Expand(rep, 1, s, j, Len(pat))
             \o ReplaceFrom(s, j + Len(pat), pat, rep)

\* s.replace(/pat/g, rep) for a pattern that matches the literal text pat
ReplaceAll(s, pat, rep) == ReplaceFrom(s, 1, pat, rep)

\* ------------------------------------------------- thread decision engine
MaxTitleLen == 100
First50Len == 50
First100Len == 100

NewThread == <<"N", "e", "w", " ", "t", "h", "r", "e", "a", "d">>
ChannelFallback == <<"c", "h", "a", "n", "n", "e", "l">>
PhUsername == <<"$", "{", "a", "u", "t", "h", "o", "r", ".", "u", "s", "e", "r", "n", "a", "m", "e", "}">>
PhDisplayName == <<"$", "{", "a", "u", "t", "h", "o", "r", ".", "d", "i", "s", "p", "l", "a", "y", "N", "a", "m", "e", "}">>
PhTag == <<"$", "{", "a", "u", "t", "h", "o", "r", ".", "t", "a", "g", "}">>
PhFirst50 == <<"$", "{", "f", "i", "r", "s", "t", "5", "0", "}">>
PhFirst100 == <<"$", "{", "f", "i", "r", "s", "t", "1", "0", "0", "}">>
PhChannelName == <<"$", "{", "c", "h", "a", "n", "n", "e", "l", ".", "n", "a", "m", "e", "}">>

NoTemplate == [has |-> FALSE, val |-> <<>>]
Template(s) == [has |-> TRUE, val |-> s]

Includes(arr, x) == \E i \in 1..Len(arr) : arr[i] = x

\* a variant without the check that the message is inside a thread
ShouldCreateThread_NoThreadCheck(message, config) ==
  IF ~Includes(config.enabledChannels, message.channelId) THEN FALSE
  ELSE IF message.bot /\ ~config.includeBots THEN FALSE
  ELSE IF message.system THEN FALSE
  ELSE TRUE

ShouldCreateThread(message, config) ==
  IF message.inThread THEN FALSE
  ELSE IF ~Includes(config.enabledChannels, message.channelId) THEN FALSE
  ELSE IF message.bot /\ ~config.includeBots THEN FALSE
  ELSE IF message.system THEN FALSE
  ELSE TRUE

First50(message) == OrElse(Trim(Slice(message.content, First50Len)), NewThread)
First100(message) == OrElse(Trim(Slice(message.content, First100Len)), NewThread)

\* the six chained replace calls
Substitute(message, t) ==
  LET t1 == ReplaceAll(t, PhUsername, message.username)
      t2 == ReplaceAll(t1, PhDisplayName, OrElse(message.displayName, message.username))
      t3 == ReplaceAll(t2, PhTag, message.tag)
      t4 == ReplaceAll(t3, PhFirst50, First50(message))
      t5 == ReplaceAll(t4, PhFirst100, First100(message))
  IN ReplaceAll(t5, PhChannelName, OrElse(message.channelName, ChannelFallback))

\* a variant that truncates the template before substituting
GenerateThreadTitle_TruncFirst(message, template) ==
  IF ~template.has \/ template.val = <<>>
  THEN Slice(First50(message), MaxTitleLen)
  ELSE Substitute(message, Slice(template.val, MaxTitleLen))

\* a variant that trims the content before taking its first characters
GenerateThreadTitle_TrimFirst(message, template) ==
  IF ~template.has \/ template.val = <<>>
  THEN Slice(OrElse(Slice(Trim(message.content), First50Len), NewThread), MaxTitleLen)
  ELSE Slice(Substitute(message, template.val), MaxTitleLen)

GenerateThreadTitle(message, template) ==
  IF ~template.has \/ template.val = <<>>
  THEN Slice(First50(message), MaxTitleLen)
  ELSE Slice(Substitute(message, template.val), MaxTitleLen)

\* messages and configs as the decision functions read them
Channels == {1, 2}
TextMessage(content, author, channelName) ==
  [inThread |-> FALSE, channelId |-> 1, bot |-> FALSE, system |-> FALSE,
   content |-> content, username |-> author.username, displayName |-> author.displayName,
   tag |-> author.tag, channelName |-> channelName]
FlagMessage(inThread, channelId, bot, system) ==
  [inThread |-> inThread, channelId |-> channelId, bot |-> bot, system |-> system,
   content |-> <<>>, username |-> <<>>, displayName |-> <<>>, tag |-> <<>>, channelName |-> <<>>]
PureConfig(chans, includeBots) == [enabledChannels |-> chans, includeBots |-> includeBots]

NoCall == [fn |-> "none", done |-> FALSE, message |-> FlagMessage(FALSE, 1, FALSE, FALSE),
           config |-> PureConfig(<<>>, FALSE), template |-> NoTemplate,
           out |-> FALSE, title |-> <<>>]

\* ---------------------------------------------------------- config store
DefaultArchiveDuration == 1440
DefaultRef == 0     \* the array and the Set that DEFAULT_CONFIG holds
Refs == {DefaultRef} \cup Guilds

NoConfig == [loaded |-> FALSE, chanRef |-> DefaultRef, setRef |-> DefaultRef, includeBots |-> FALSE,
             titleTemplate |-> NoTemplate, replyMessage |-> NoTemplate,
             archiveDuration |-> DefaultArchiveDuration]
NoFile == [exists |-> FALSE, enabledChannels |-> <<>>, includeBots |-> FALSE,
           titleTemplate |-> NoTemplate, replyMessage |-> NoTemplate,
           archiveDuration |-> DefaultArchiveDuration, manuallyRenamedThreads |-> <<>>]

\* { guildId, ...DEFAULT_CONFIG }: the new object shares DEFAULT_CONFIG's
\* array and Set
DefaultConfig == [NoConfig EXCEPT !.loaded = TRUE]

\* { ...parsed, manuallyRenamedThreads: new Set(parsed.manuallyRenamedThreads) }:
\* the object read from the guild's file has an array and a Set of its own
ConfigFromFile(g) ==
  [loaded |-> TRUE, chanRef |-> g, setRef |-> g, includeBots |-> file[g].includeBots,
   titleTemplate |-> file[g].titleTemplate, replyMessage |-> file[g].replyMessage,
   archiveDuration |-> file[g].archiveDuration]

\* new Set(array): the members in the order of their first occurrence
RECURSIVE SetFrom(_)
SetFrom(arr) ==
  IF arr = <<>> THEN <<>>
  ELSE LET front == SetFrom(SubSeq(arr, 1, Len(arr) - 1))
       IN IF Includes(front, arr[Len(arr)]) THEN front ELSE Append(front, arr[Len(arr)])

\* get(guildId) returns: the cache has the guild, or the file does not exist
\* (ENOENT), or the file is read
GetReturns(g, readOk) == cache[g].loaded \/ ~file[g].exists \/ readOk

\* the store after a get(guildId) that returned
CacheAfterGet(g) ==
  IF cache[g].loaded THEN cache
  ELSE [cache EXCEPT ![g] = IF file[g].exists THEN ConfigFromFile(g) ELSE DefaultConfig]
SetsAfterGet(g) ==
  IF ~cache[g].loaded /\ file[g].exists
  THEN [sets EXCEPT ![g] = SetFrom(file[g].manuallyRenamedThreads)] ELSE sets
ArraysAfterGet(g) ==
  IF ~cache[g].loaded /\ file[g].exists
  THEN [arrays EXCEPT ![g] = file[g].enabledChannels] ELSE arrays

\* Set.prototype.add on a Set kept in insertion order
SetAdd(set, x) == IF Includes(set, x) THEN set ELSE Append(set, x)

\* a variant that hands the Set itself to JSON.stringify, which writes {}
Serialize_SetAsObject(config, arrs, sts) ==
  [exists |-> TRUE, enabledChannels |-> arrs[config.chanRef], includeBots |-> config.includeBots,
   titleTemplate |-> config.titleTemplate, replyMessage |-> config.replyMessage,
   archiveDuration |-> config.archiveDuration, manuallyRenamedThreads |-> <<>>]

\* JSON.stringify({ ...config, manuallyRenamedThreads: Array.from(...) })
Serialize(config, arrs, sts) ==
  [exists |-> TRUE, enabledChannels |-> arrs[config.chanRef], includeBots |-> config.includeBots,
   titleTemplate |-> config.titleTemplate, replyMessage |-> config.replyMessage,
   archiveDuration |-> config.archiveDuration, manuallyRenamedThreads |-> sts[config.setRef]]

\* a config by value, as a caller of get reads it: the channel array's
\* elements and the members of the Set
Members(seq) == {seq[i] : i \in 1..Len(seq)}
ConfigValue(config, arrs, sts) ==
  [enabledChannels |-> arrs[config.chanRef], includeBots |-> config.includeBots,
   titleTemplate |-> config.titleTemplate, replyMessage |-> config.replyMessage,
   archiveDuration |-> config.archiveDuration,
   manuallyRenamedThreads |-> Members(sts[config.setRef])]
DefaultValue ==
  [enabledChannels |-> <<>>, includeBots |-> FALSE, titleTemplate |-> NoTemplate,
   replyMessage |-> NoTemplate, archiveDuration |-> DefaultArchiveDuration,
   manuallyRenamedThreads |-> {}]

\* what get(guildId) resolves with in the current state when it does not throw
GetValue(g) == ConfigValue(CacheAfterGet(g)[g], ArraysAfterGet(g), SetsAfterGet(g))

\* no command has run: nothing was stored, no guild was configured
NoCmd == [n |-> 0, op |-> "none", guild |-> 0, set |-> "none", configured |-> {},
          stored |-> [g \in Guilds |-> [has |-> FALSE, val |-> DefaultValue]]]

\* ------------------------------------------- config store: overlapping calls
MaxOps == 3          \* calls of get and update in one run

OpIds == 1..MaxOps
ObjIds == 1..(2 * MaxOps)
\* the partial of an update call: { includeBots: true } or { archiveDuration: 60 }
Partials == {"includeBots", "archiveDuration"}

\* id: the object get resolved with; current and updated: the values update
\* spread; written: the text set handed to writeFile
NoOp == [pc |-> "idle", kind |-> "none", guild |-> 0, partial |-> "none", id |-> 0,
         current |-> NoConfig, updated |-> NoConfig, written |-> NoFile]

InitStore ==
  /\ ops = [o \in OpIds |-> NoOp]
  /\ heap = [next |-> 1, cached |-> [g \in Guilds |-> 0], objs |-> [i \in ObjIds |-> NoConfig]]

\* { ...current, ...partial }
Merge(current, partial) ==
  CASE partial = "includeBots" -> [current EXCEPT !.includeBots = TRUE]
    [] partial = "archiveDuration" -> [current EXCEPT !.archiveDuration = 60]
    [] OTHER -> current

\* the config, or the file, has the change of the partial
Has(config, partial) ==
  CASE partial = "includeBots" -> config.includeBots
    [] partial = "archiveDuration" -> config.archiveDuration = 60
    [] OTHER -> TRUE

\* the object a call holds, as it is now
Held(o) ==
  IF ops[o].id = heap.cached[ops[o].guild] THEN cache[ops[o].guild] ELSE heap.objs[ops[o].id]

\* this.cache.set(guildId, config) with a new object: the object the cache
\* held stays with those who hold it
CacheSet(g, config) ==
  /\ cache' = [cache EXCEPT ![g] = config]
  /\ heap' = [next |-> heap.next + 1,
              cached |-> [heap.cached EXCEPT ![g] = heap.next],
              objs |-> IF heap.cached[g] # 0 THEN [heap.objs EXCEPT ![heap.cached[g]] = cache[g]]
                       ELSE heap.objs]

\* get(guildId) or update(guildId, partial) is called; get runs to its first
\* await: the cached object is returned, or readFile is started
StoreCall(o, kind, g, partial) ==
  /\ ops[o].pc = "idle"
  /\ \A n \in OpIds : n < o => ops[n].pc # "idle"
  /\ ops' = [ops EXCEPT ![o] =
               [NoOp EXCEPT !.kind = kind, !.guild = g,
                            !.partial = IF kind = "update" THEN partial ELSE "none",
                            !.pc = IF cache[g].loaded THEN "got" ELSE "reading",
                            !.id = IF cache[g].loaded THEN heap.cached[g] ELSE 0]]
  /\ UNCHANGED <<qvars, pure, msgs, threads, calls, modal, cvars, cmd, rvars, uvars, heap>>

\* readFile settles: a parsed or a default config is built, cached and
\* returned; an error other than ENOENT is thrown on. The arrays and Sets of
\* the objects are not told apart here: no step of these calls changes them
ReadSettles(o, readOk) ==
  LET g == ops[o].guild IN
  /\ ops[o].pc = "reading"
  /\ UNCHANGED <<qvars, pure, msgs, threads, calls, modal, file, cmd, rvars, uvars>>
  /\ IF file[g].exists /\ ~readOk
     THEN /\ ops' = [ops EXCEPT ![o].pc = "failed"]
          /\ UNCHANGED <<cache, sets, arrays, heap>>
     ELSE /\ CacheSet(g, IF file[g].exists THEN ConfigFromFile(g) ELSE DefaultConfig)
          /\ sets' = IF file[g].exists THEN [sets EXCEPT ![g] = SetFrom(file[g].manuallyRenamedThreads)]
                     ELSE sets
          /\ arrays' = IF file[g].exists THEN [arrays EXCEPT ![g] = file[g].enabledChannels] ELSE arrays
          /\ ops' = [ops EXCEPT ![o].pc = "got", ![o].id = heap.next]

\* update goes on after await this.get: the spread, then set up to writeFile
UpdateMerges(o) ==
  /\ ops[o].pc = "got" /\ ops[o].kind = "update"
  /\ ops' = [ops EXCEPT ![o].pc = "writing", ![o].current = Held(o),
                        ![o].updated = Merge(Held(o), ops[o].partial),
                        ![o].written = Serialize(Merge(Held(o), ops[o].partial), arrays, sets)]
  /\ UNCHANGED <<qvars, pure, msgs, threads, calls, modal, cvars, cmd, rvars, uvars, heap>>

\* a variant that spreads the partial over the config cached when the write
\* is done
WriteSettles_OverCached(o, writeOk) ==
  LET g == ops[o].guild
      updated == Merge(cache[g], ops[o].partial)
  IN /\ ops[o].pc = "writing"
     /\ UNCHANGED <<qvars, pure, msgs, threads, calls, modal, sets, arrays, cmd, rvars, uvars>>
     /\ IF writeOk
        THEN /\ file' = [file EXCEPT ![g] = Serialize(updated, arrays, sets)]
             /\ CacheSet(g, updated)
             /\ ops' = [ops EXCEPT ![o].pc = "done", ![o].id = heap.next]
        ELSE /\ ops' = [ops EXCEPT ![o].pc = "failed"]
             /\ UNCHANGED <<file, cache, heap>>

\* writeFile settles: the updated object is cached, or the error thrown on
WriteSettles(o, writeOk) ==
  LET g == ops[o].guild IN
  /\ ops[o].pc = "writing"
  /\ UNCHANGED <<qvars, pure, msgs, threads, calls, modal, sets, arrays, cmd, rvars, uvars>>
  /\ IF writeOk
     THEN /\ file' = [file EXCEPT ![g] = ops[o].written]
          /\ CacheSet(g, ops[o].updated)
          /\ ops' = [ops EXCEPT ![o].pc = "done", ![o].id = heap.next]
     ELSE /\ ops' = [ops EXCEPT ![o].pc = "failed"]
          /\ UNCHANGED <<file, cache, heap>>

\* the caller of a get changes the object it got in place, as
\* handleSetSubcommand does (config.archiveDuration = duration)
CallerChanges(o) ==
  LET g == ops[o].guild
      changed == [Held(o) EXCEPT !.archiveDuration = 4320]
  IN /\ ops[o].pc = "got" /\ ops[o].kind = "get"
     /\ ops' = [ops EXCEPT ![o].pc = "changed"]
     /\ IF ops[o].id = heap.cached[g]
        THEN cache' = [cache EXCEPT ![g] = changed] /\ heap' = heap
        ELSE heap' = [heap EXCEPT !.objs[ops[o].id] = changed] /\ cache' = cache
     /\ UNCHANGED <<qvars, pure, msgs, threads, calls, modal, file, sets, arrays, cmd, rvars, uvars>>

\* ------------------------------------------------------ reminder service
MaxReminders == 3    \* Reminder objects created in one run
MaxSweeps == 2       \* activations of processPendingReminders at one time
MaxTicks == 2        \* advances of the clock in one run

ReminderDelayHours == 24     \* DURATION.REMINDER_DELAY_MS, in hours
Users == {1}
ReminderIds == 1..MaxReminders
SweepIds == 1..MaxSweeps
ClockSteps == {1, ReminderDelayHours}

\* tries: sendReminder calls for the object; dms: user.send calls for it;
\* failed: a delivery of it has failed; removed: spliced out of the array
NoReminder == [st |-> "free", guildId |-> 0, userId |-> 0, scheduledFor |-> 0, sent |-> FALSE,
               tries |-> 0, dms |-> 0, failed |-> FALSE, removed |-> FALSE]
IdleSweep == [pc |-> "idle", list |-> <<>>, i |-> 0]
NoReminderCall == [op |-> "none", guildId |-> 0, userId |-> 0, effect |-> "none", id |-> 0]

InitReminders ==
  /\ clock = [now |-> 0, ticks |-> 0, cron |-> -1]
  /\ reminders = <<>>
  /\ robjs = [id \in ReminderIds |-> NoReminder]
  /\ sweeps = [s \in SweepIds |-> IdleSweep]
  /\ rcmd = NoReminderCall

\* r.guildId === guildId && r.userId === userId && r.reminderType === ... && !r.sent
Matches(id, g, u) == robjs[id].guildId = g /\ robjs[id].userId = u /\ ~robjs[id].sent
MatchingIndexes(g, u) == {i \in 1..Len(reminders) : Matches(reminders[i], g, u)}
FreeReminderId == CHOOSE id \in ReminderIds : robjs[id].st = "free" /\ \A o \in ReminderIds : o < id => robjs[o].st # "free"

\* a variant that pushes without looking for an existing reminder
ScheduleReminder_NoCheck(g, u) ==
  /\ UNCHANGED <<nonrvars, clock, sweeps>>
  /\ \E id \in ReminderIds : robjs[id].st = "free"
  /\ robjs' = [robjs EXCEPT ![FreeReminderId] =
                 [NoReminder EXCEPT !.st = "live", !.guildId = g, !.userId = u,
                                    !.scheduledFor = clock.now + ReminderDelayHours]]
  /\ reminders' = Append(reminders, FreeReminderId)
  /\ rcmd' = [op |-> "schedule", guildId |-> g, userId |-> u, effect |-> "pushed",
              id |-> FreeReminderId]

\* the body of scheduleReminder(guildId, userId), which has no await
ScheduleEffect(g, u) ==
  IF MatchingIndexes(g, u) # {}
  THEN /\ UNCHANGED <<reminders, robjs>>
       /\ rcmd' = [op |-> "schedule", guildId |-> g, userId |-> u, effect |-> "none", id |-> 0]
  ELSE /\ \E id \in ReminderIds : robjs[id].st = "free"
       /\ robjs' = [robjs EXCEPT ![FreeReminderId] =
                      [NoReminder EXCEPT !.st = "live", !.guildId = g, !.userId = u,
                                         !.scheduledFor = clock.now + ReminderDelayHours]]
       /\ reminders' = Append(reminders, FreeReminderId)
       /\ rcmd' = [op |-> "schedule", guildId |-> g, userId |-> u, effect |-> "pushed",
                   id |-> FreeReminderId]

\* scheduleReminder(guildId, userId) called on its own
ScheduleReminder(g, u) ==
  /\ UNCHANGED <<nonrvars, clock, sweeps>>
  /\ ScheduleEffect(g, u)

\* splice(index, 1)
RemoveAt(seq, i) == SubSeq(seq, 1, i - 1) \o SubSeq(seq, i + 1, Len(seq))

\* a variant that looks for the user's reminder in any guild
CancelReminder_AnyGuild(g, u) ==
  LET found == {i \in 1..Len(reminders) : robjs[reminders[i]].userId = u /\ ~robjs[reminders[i]].sent}
  IN /\ UNCHANGED <<nonrvars, clock, sweeps>>
     /\ IF found = {}
        THEN /\ UNCHANGED <<reminders, robjs>>
             /\ rcmd' = [op |-> "cancel", guildId |-> g, userId |-> u, effect |-> "none", id |-> 0]
        ELSE LET index == CHOOSE i \in found : \A j \in found : i <= j
             IN /\ reminders' = RemoveAt(reminders, index)
                /\ robjs' = [robjs EXCEPT ![reminders[index]].removed = TRUE]
                /\ rcmd' = [op |-> "cancel", guildId |-> g, userId |-> u, effect |-> "removed",
                            id |-> reminders[index]]

\* a variant whose findIndex does not look at the sent flag
CancelReminder_IgnoresSent(g, u) ==
  LET found == {i \in 1..Len(reminders) :
                  robjs[reminders[i]].guildId = g /\ robjs[reminders[i]].userId = u}
  IN /\ UNCHANGED <<nonrvars, clock, sweeps>>
     /\ IF found = {}
        THEN /\ UNCHANGED <<reminders, robjs>>
             /\ rcmd' = [op |-> "cancel", guildId |-> g, userId |-> u, effect |-> "none", id |-> 0]
        ELSE LET index == CHOOSE i \in found : \A j \in found : i <= j
             IN /\ reminders' = RemoveAt(reminders, index)
                /\ robjs' = [robjs EXCEPT ![reminders[index]].removed = TRUE]
                /\ rcmd' = [op |-> "cancel", guildId |-> g, userId |-> u, effect |-> "removed",
                            id |-> reminders[index]]

\* the body of cancelReminder(guildId, userId): findIndex, then splice
CancelEffect(g, u) ==
  IF MatchingIndexes(g, u) = {}
  THEN /\ UNCHANGED <<reminders, robjs>>
       /\ rcmd' = [op |-> "cancel", guildId |-> g, userId |-> u, effect |-> "none", id |-> 0]
  ELSE LET index == CHOOSE i \in MatchingIndexes(g, u) : \A j \in MatchingIndexes(g, u) : i <= j
       IN /\ reminders' = RemoveAt(reminders, index)
          /\ robjs' = [robjs EXCEPT ![reminders[index]].removed = TRUE]
          /\ rcmd' = [op |-> "cancel", guildId |-> g, userId |-> u, effect |-> "removed",
                      id |-> reminders[index]]

\* cancelReminder(guildId, userId) called on its own
CancelReminder(g, u) ==
  /\ UNCHANGED <<nonrvars, clock, sweeps>>
  /\ CancelEffect(g, u)

\* the sweep s goes on after the reminder at its position was handled, the
\* objects being objs by then: sendReminder is called for the next reminder
\* of its list, or the loop and the sweep end
SweepGoesOn(s, objs) ==
  IF sweeps[s].i < Len(sweeps[s].list)
  THEN /\ sweeps' = [sweeps EXCEPT ![s].i = @ + 1, ![s].pc = "fetching"]
       /\ robjs' = [objs EXCEPT ![sweeps[s].list[sweeps[s].i + 1]].tries = @ + 1]
  ELSE /\ sweeps' = [sweeps EXCEPT ![s] = IdleSweep]
       /\ robjs' = objs

\* a variant whose filter does not look at scheduledFor
ProcessPendingReminders_NoDueFilter(s) ==
  /\ clock.cron < clock.now
  /\ sweeps[s].pc = "idle"
  /\ \A o \in SweepIds : o < s => sweeps[o].pc # "idle"
  /\ clock' = [clock EXCEPT !.cron = clock.now]
  /\ UNCHANGED <<nonrvars, reminders, rcmd>>
  /\ LET pendingReminders == SelectSeq(reminders, LAMBDA id : ~robjs[id].sent)
     IN IF pendingReminders = <<>>
        THEN UNCHANGED <<sweeps, robjs>>
        ELSE /\ sweeps' = [sweeps EXCEPT ![s] = [pc |-> "fetching", list |-> pendingReminders, i |-> 1]]
             /\ robjs' = [robjs EXCEPT ![pendingReminders[1]].tries = @ + 1]

\* the hourly cron tick runs processPendingReminders: the due un-sent
\* reminders are filtered into a list and sendReminder starts on the first
ProcessPendingReminders(s) ==
  /\ clock.cron < clock.now
  /\ sweeps[s].pc = "idle"
  /\ \A o \in SweepIds : o < s => sweeps[o].pc # "idle"
  /\ clock' = [clock EXCEPT !.cron = clock.now]
  /\ UNCHANGED <<nonrvars, reminders, rcmd>>
  /\ LET pendingReminders ==
           SelectSeq(reminders, LAMBDA id : ~robjs[id].sent /\ robjs[id].scheduledFor <= clock.now)
     IN IF pendingReminders = <<>>
        THEN UNCHANGED <<sweeps, robjs>>
        ELSE /\ sweeps' = [sweeps EXCEPT ![s] = [pc |-> "fetching", list |-> pendingReminders, i |-> 1]]
             /\ robjs' = [robjs EXCEPT ![pendingReminders[1]].tries = @ + 1]

\* sendReminder: client.users.fetch resolves and user.send is called
FetchResolves(s) ==
  /\ sweeps[s].pc = "fetching"
  /\ sweeps' = [sweeps EXCEPT ![s].pc = "sending"]
  /\ robjs' = [robjs EXCEPT ![sweeps[s].list[sweeps[s].i]].dms = @ + 1]
  /\ UNCHANGED <<nonrvars, clock, reminders, rcmd>>

\* sendReminder: client.users.fetch rejects; the reminder is marked sent anyway
FetchFails(s) ==
  /\ sweeps[s].pc = "fetching"
  /\ SweepGoesOn(s, [robjs EXCEPT ![sweeps[s].list[sweeps[s].i]].sent = TRUE,
                                  ![sweeps[s].list[sweeps[s].i]].failed = TRUE])
  /\ UNCHANGED <<nonrvars, clock, reminders, rcmd>>

\* sendReminder: user.send resolves (ok) or rejects; the reminder is marked
\* sent in both cases
SendSettles(s, ok) ==
  /\ sweeps[s].pc = "sending"
  /\ SweepGoesOn(s, [robjs EXCEPT ![sweeps[s].list[sweeps[s].i]].sent = TRUE,
                                  ![sweeps[s].list[sweeps[s].i]].failed = ~ok \/ @])
  /\ UNCHANGED <<nonrvars, clock, reminders, rcmd>>

\* -------------------------------------------------- completion tracking
MaxSubs == 2         \* activations of handleModalSubmit at one time
MaxSubmits == 3      \* modal submissions in one run

TtlHours == 24       \* TTL, in hours
GuildMembers == {1, 2}
HomeGuild == 1       \* the guild the forms' custom ids carry
FlowTypes == {"intro", "working", "showcase"}
SubIds == 1..MaxSubs

NoEntry == [has |-> FALSE, completions |-> {}, timestamp |-> 0]
\* basis: the completion set checkAndAwardBadge read when it decided to award
IdleSub == [pc |-> "idle", user |-> 0, flowType |-> "none", basis |-> {}]
\* posted: the form types of the member whose content was posted publicly
NoRole == [builder |-> FALSE, grants |-> 0, basis |-> {}, posted |-> {}]
\* user: the target user id of the custom id; sender: interaction.user.id
NoStep == [op |-> "none", n |-> 0, user |-> 0, sender |-> 0, removed |-> {}]
NoPing == [handler |-> "none", invoker |-> 0, mod |-> FALSE, started |-> {}]

InitCompletions ==
  /\ userCompletions = [u \in GuildMembers |-> NoEntry]
  /\ subs = [h \in SubIds |-> IdleSub]
  /\ roles = [u \in GuildMembers |-> NoRole]
  /\ ucmd = NoStep
  /\ ping = NoPing

\* a variant that is content with a project form alone
Completed_ProjectOnly(userData) ==
  /\ userData.has
  /\ ("working" \in userData.completions \/ "showcase" \in userData.completions)

\* checkAndAwardBadge: completed = hasIntro && hasProject, on the Map's entry
Completed(userData) ==
  /\ userData.has
  /\ "intro" \in userData.completions
  /\ ("working" \in userData.completions \/ "showcase" \in userData.completions)

\* the open_modal button is pressed by sender on a prompt made for u: the
\* modal is shown to the invited user only
OpenModal(sender, u, flowType) ==
  /\ ucmd.n < MaxSubmits
  /\ UNCHANGED <<basevars, rvars, userCompletions, subs, roles, ping>>
  /\ ucmd' = [op |-> IF sender # u THEN "refused" ELSE "showModal", n |-> ucmd.n + 1,
              user |-> u, sender |-> sender, removed |-> {}]

\* a variant without the comparison of interaction.user.id and the target
HandleModalSubmit_AnySender(h, u, flowType, sender) ==
  /\ ucmd.n < MaxSubmits
  /\ subs[h].pc = "idle"
  /\ \A o \in SubIds : o < h => subs[o].pc # "idle"
  /\ UNCHANGED <<basevars, rvars, roles, ping>>
  /\ userCompletions' =
       [userCompletions EXCEPT ![u] =
          [has |-> TRUE, completions |-> @.completions \cup {flowType}, timestamp |-> clock.now]]
  /\ subs' = [subs EXCEPT ![h] = [pc |-> "posting", user |-> u, flowType |-> flowType, basis |-> {}]]
  /\ ucmd' = [op |-> "submit", n |-> ucmd.n + 1, user |-> u, sender |-> sender, removed |-> {}]

\* a variant that starts a new set at every submission
HandleModalSubmit_NewSet(h, u, flowType, sender) ==
  /\ ucmd.n < MaxSubmits
  /\ subs[h].pc = "idle"
  /\ \A o \in SubIds : o < h => subs[o].pc # "idle"
  /\ UNCHANGED <<basevars, rvars, roles, ping>>
  /\ IF sender # u
     THEN /\ UNCHANGED <<userCompletions, subs>>
          /\ ucmd' = [op |-> "refused", n |-> ucmd.n + 1, user |-> u, sender |-> sender, removed |-> {}]
     ELSE /\ userCompletions' =
               [userCompletions EXCEPT ![u] =
                  [has |-> TRUE, completions |-> {flowType}, timestamp |-> clock.now]]
          /\ subs' = [subs EXCEPT ![h] = [pc |-> "posting", user |-> u, flowType |-> flowType, basis |-> {}]]
          /\ ucmd' = [op |-> "submit", n |-> ucmd.n + 1, user |-> u, sender |-> sender, removed |-> {}]

\* handleModalSubmit up to its first request after deferReply: a sender other
\* than the user the form was made for (u) is refused; otherwise the form is
\* recorded in the Map and the timestamp refreshed, before anything is posted
HandleModalSubmit(h, u, flowType, sender) ==
  /\ ucmd.n < MaxSubmits
  /\ subs[h].pc = "idle"
  /\ \A o \in SubIds : o < h => subs[o].pc # "idle"
  /\ UNCHANGED <<basevars, rvars, roles, ping>>
  /\ IF sender # u
     THEN /\ UNCHANGED <<userCompletions, subs>>
          /\ ucmd' = [op |-> "refused", n |-> ucmd.n + 1, user |-> u, sender |-> sender, removed |-> {}]
     ELSE /\ userCompletions' =
               [userCompletions EXCEPT ![u] =
                  [has |-> TRUE, completions |-> @.completions \cup {flowType}, timestamp |-> clock.now]]
          /\ subs' = [subs EXCEPT ![h] = [pc |-> "posting", user |-> u, flowType |-> flowType, basis |-> {}]]
          /\ ucmd' = [op |-> "submit", n |-> ucmd.n + 1, user |-> u, sender |-> sender, removed |-> {}]

\* the public post (and for a project its thread) settles; when it is made,
\* the user's reminder is cancelled and the reply is edited
PostSettles(h, outcome) ==
  /\ subs[h].pc = "posting"
  /\ UNCHANGED <<basevars, clock, sweeps, userCompletions, ucmd, ping>>
  /\ IF outcome = "posted"
     THEN /\ CancelEffect(HomeGuild, subs[h].user)
          /\ subs' = [subs EXCEPT ![h].pc = "replying"]
          /\ roles' = [roles EXCEPT ![subs[h].user].posted = @ \cup {subs[h].flowType}]
     ELSE /\ subs' = [subs EXCEPT ![h] = IdleSub]
          /\ UNCHANGED <<reminders, robjs, rcmd, roles>>

\* editReply settles; when it resolves checkAndAwardBadge reads the Map
ReplySettles(h, ok) ==
  /\ subs[h].pc = "replying"
  /\ UNCHANGED <<basevars, rvars, userCompletions, roles, ucmd, ping>>
  /\ subs' = IF ok /\ Completed(userCompletions[subs[h].user])
             THEN [subs EXCEPT ![h].pc = "fetching",
                               ![h].basis = userCompletions[subs[h].user].completions]
             ELSE [subs EXCEPT ![h] = IdleSub]

\* checkAndAwardBadge: guild and member are fetched; a member who has the
\* role already is left alone
MemberFetched(h, ok) ==
  /\ subs[h].pc = "fetching"
  /\ UNCHANGED <<basevars, rvars, userCompletions, roles, ucmd, ping>>
  /\ subs' = IF ok /\ ~roles[subs[h].user].builder
             THEN [subs EXCEPT ![h].pc = "adding"]
             ELSE [subs EXCEPT ![h] = IdleSub]

\* checkAndAwardBadge: member.roles.add settles, then the congratulation DM
RoleAddSettles(h, ok) ==
  /\ subs[h].pc = "adding"
  /\ UNCHANGED <<basevars, rvars, userCompletions, ucmd, ping>>
  /\ subs' = [subs EXCEPT ![h] = IdleSub]
  /\ roles' = IF ok
              THEN [roles EXCEPT ![subs[h].user] =
                      [@ EXCEPT !.builder = TRUE, !.grants = @ + 1, !.basis = subs[h].basis]]
              ELSE roles

\* a variant that also deletes the entries exactly TTL old
Expired_AtTtl == {u \in GuildMembers : userCompletions[u].has /\ clock.now - userCompletions[u].timestamp >= TtlHours}

\* the users the cleanup deletes: now - data.timestamp > TTL
Expired == {u \in GuildMembers : userCompletions[u].has /\ clock.now - userCompletions[u].timestamp > TtlHours}

\* the setInterval callback: one pass over the Map, without await
CleanupCompletions ==
  /\ UNCHANGED <<basevars, rvars, subs, roles, ping>>
  /\ userCompletions' = [u \in GuildMembers |-> IF u \in Expired THEN NoEntry ELSE userCompletions[u]]
  /\ ucmd' = [ucmd EXCEPT !.op = "cleanup", !.user = 0, !.sender = 0, !.removed = Expired]

\* time passes for the completion tracking
AdvanceClock(d) ==
  /\ clock.ticks < MaxTicks
  /\ clock' = [clock EXCEPT !.now = @ + d, !.ticks = @ + 1]
  /\ UNCHANGED <<basevars, uvars, reminders, robjs, sweeps, rcmd>>

\* ------------------------------------------------------------ intro flow
\* a member joined: after the welcome delay startIntroFlow fetches the user,
\* schedules the reminder and sends the welcome DM
GuildMemberAdd(u, fetchOk) ==
  /\ UNCHANGED <<basevars, uvars, clock, sweeps>>
  /\ IF fetchOk THEN ScheduleEffect(HomeGuild, u) ELSE UNCHANGED <<reminders, robjs, rcmd>>

\* the targets of /ping-intro: the users named in the options, or the invoker
Targets(invoker, named) == IF named = {} THEN {invoker} ELSE named

\* /ping-intro in the InteractionCreate handler of the intro bot: the
\* invoker's member object must be there and hold MOD_ROLE_ID; the flow is
\* then started for each target without a reminder
PingIntro(invoker, isMember, hasModRole, named) ==
  /\ UNCHANGED <<basevars, rvars, userCompletions, subs, roles, ucmd>>
  /\ ping' = [handler |-> "index", invoker |-> invoker, mod |-> hasModRole,
              started |-> IF isMember /\ hasModRole THEN Targets(invoker, named) ELSE {}]

\* /ping-intro in handlePingIntro: the role is asked for only when a target
\* other than the invoker is named and MOD_ROLE_ID is configured
HandlePingIntro(invoker, hasModRole, modRoleId, named) ==
  LET targets == Targets(invoker, named)
      hasTargetsOtherThanSelf == \E t \in targets : t # invoker
  IN /\ UNCHANGED <<basevars, rvars, userCompletions, subs, roles, ucmd>>
     /\ ping' = [handler |-> "command", invoker |-> invoker, mod |-> hasModRole,
                 started |-> IF hasTargetsOtherThanSelf /\ modRoleId /\ ~hasModRole
                             THEN {} ELSE targets]

\* -------------------------------------------------------- thread service
MaxMsgs == 1     \* messages posted in one run
MaxEdits == 2    \* edits of one message

Msgs == 1..MaxMsgs
\* upd: how far handleMessageUpdate got for the latest edit ("skipped" before
\* updateThreadTitle, "getFailed" in it, "ran" past its configStore.get)
\* test: the reply of /auto-thread test when the command posted the message
\* or stopped before posting one ("none": no such command)
NoMessage == [st |-> "none", guild |-> 0, content |-> <<>>, edits |-> 0, upd |-> "none", test |-> "none"]
NoCreate == [called |-> FALSE, eligible |-> FALSE, perm |-> "none", ret |-> "none", captured |-> FALSE]

\* the bot's permission lookup on the channel and, when the permission is
\* missing, how the notification of a guild manager went
PermOutcomes == {"granted", "noBotMember", "noPermissions", "missingNoAdmin", "missingNotified", "missingDmFailed"}
MissingPerm == {"missingNoAdmin", "missingNotified", "missingDmFailed"}

EditContents == {<<"a">>, <<"b", " ">>}
HumanNames == {<<"h">>}
TheAuthor == [username |-> <<"b", "o", "b">>, displayName |-> <<>>, tag |-> <<"b", "o", "b", "#", "1">>]

MessageOf(channelId, bot, system, inThread, content) ==
  [TextMessage(content, TheAuthor, <<"g", "e", "n">>) EXCEPT
     !.inThread = inThread, !.channelId = channelId, !.bot = bot, !.system = system]

\* a variant that skips the CreatePublicThreads check
MayStartThread_IgnoresPermission(message, config, perm) == ShouldCreateThread(message, config)

\* createThreadForMessage goes on to enqueue the thread start
MayStartThread(message, config, perm) == ShouldCreateThread(message, config) /\ perm = "granted"

\* createThreadForMessage(message), from the return of configStore.get on
CreateThreadForMessage(m, g, message, perm, readOk) ==
  IF ~GetReturns(g, readOk)
  THEN /\ calls' = [calls EXCEPT ![m] = [NoCreate EXCEPT !.called = TRUE, !.ret = "null"]]
       /\ UNCHANGED <<queue, processing, loops, tasks, cvars>>
  ELSE LET config == CacheAfterGet(g)[g]
           plain == PureConfig(ArraysAfterGet(g)[config.chanRef], config.includeBots)
       IN /\ cache' = CacheAfterGet(g)
          /\ sets' = SetsAfterGet(g)
          /\ arrays' = ArraysAfterGet(g)
          /\ UNCHANGED file
          /\ IF MayStartThread(message, plain, perm)
             THEN /\ CanSubmit
                  /\ Enqueue(NextTaskId, [NoTask EXCEPT !.kind = "start", !.st = "queued", !.guild = g, !.msg = m,
                                                        !.title = GenerateThreadTitle(message, config.titleTemplate)])
                  \* return thread: the captured variable as the task has left it
                  /\ calls' = [calls EXCEPT ![m] = [called |-> TRUE, eligible |-> TRUE, perm |-> perm,
                                                    ret |-> IF calls[m].captured THEN "thread" ELSE "null",
                                                    captured |-> calls[m].captured]]
             ELSE \* the permission is looked up only for a message that passed
                  /\ calls' = [calls EXCEPT ![m] =
                       IF ShouldCreateThread(message, plain)
                       THEN [NoCreate EXCEPT !.called = TRUE, !.eligible = TRUE, !.perm = perm, !.ret = "null"]
                       ELSE [NoCreate EXCEPT !.called = TRUE, !.ret = "null"]]
                  /\ UNCHANGED <<queue, processing, loops, tasks>>

\* a message is posted and handleMessageCreate runs for it
HandleMessageCreate(m, g, channelId, bot, system, inThread, content, perm, readOk) ==
  /\ msgs[m].st = "none"
  /\ \A k \in Msgs : k < m => msgs[k].st # "none"
  /\ msgs' = [msgs EXCEPT ![m] = [NoMessage EXCEPT !.st = "posted", !.guild = g, !.content = content]]
  /\ IF g = 0 \/ inThread
     THEN UNCHANGED <<queue, processing, loops, tasks, calls, cvars>>
     ELSE CreateThreadForMessage(m, g, MessageOf(channelId, bot, system, inThread, content), perm, readOk)
  /\ UNCHANGED <<retryDelay, doneSeq, pure, xvars, threads, modal>>

TestContent == <<"t">>

\* /auto-thread test channel:<channel>: the checks of handleTest, then the bot
\* posts the test message itself and calls createThreadForMessage on it; the
\* reply is chosen by the value that call returns
HandleTest(m, g, channelId, isText, perm, readOk) ==
  /\ msgs[m].st = "none" /\ msgs[m].test = "none"
  /\ \A k \in Msgs : k < m => msgs[k].st # "none"
  /\ IF ~isText
     THEN /\ msgs' = [msgs EXCEPT ![m].test = "notText"]
          /\ UNCHANGED <<queue, processing, loops, tasks, calls, cvars>>
     ELSE IF ~GetReturns(g, readOk)
     THEN /\ msgs' = [msgs EXCEPT ![m].test = "error"]
          /\ UNCHANGED <<queue, processing, loops, tasks, calls, cvars>>
     ELSE IF ~Includes(ArraysAfterGet(g)[CacheAfterGet(g)[g].chanRef], channelId) \/ perm # "granted"
     THEN /\ msgs' = [msgs EXCEPT ![m].test =
                        IF ~Includes(ArraysAfterGet(g)[CacheAfterGet(g)[g].chanRef], channelId) THEN "notEnabled"
                        ELSE IF perm = "noBotMember" THEN "noBotMember" ELSE "missingPermission"]
          /\ cache' = CacheAfterGet(g)
          /\ sets' = SetsAfterGet(g)
          /\ arrays' = ArraysAfterGet(g)
          /\ UNCHANGED <<queue, processing, loops, tasks, calls, file>>
     ELSE /\ CreateThreadForMessage(m, g, MessageOf(channelId, TRUE, FALSE, FALSE, TestContent), perm, TRUE)
          /\ msgs' = [msgs EXCEPT ![m] = [NoMessage EXCEPT !.st = "posted", !.guild = g, !.content = TestContent,
                                                           !.test = IF calls'[m].ret = "thread" THEN "successful"
                                                                    ELSE "failed"]]
  /\ UNCHANGED <<retryDelay, doneSeq, pure, xvars, threads, modal>>

\* a member starts a thread on a message by hand
MemberStartsThread(m, name) ==
  /\ msgs[m].st = "posted" /\ msgs[m].guild # 0
  /\ ~threads[m].exists
  /\ threads' = [threads EXCEPT ![m] = [ThreadBy(name) EXCEPT !.by = "member"]]
  /\ UNCHANGED <<qvars, pure, xvars, msgs, calls, modal, cvars>>

\* a variant that does not look at manuallyRenamedThreads
WantsRename_IgnoresManual(renamed, m, name, newTitle) == name # newTitle

\* updateThreadTitle goes on to enqueue a rename
WantsRename(renamed, m, name, newTitle) == ~Includes(renamed, m) /\ name # newTitle

\* updateThreadTitle(message, thread), from the return of configStore.get on
UpdateThreadTitle(m, g, message, readOk) ==
  IF ~GetReturns(g, readOk)
  THEN UNCHANGED <<queue, processing, loops, tasks, cvars>>
  ELSE LET config == CacheAfterGet(g)[g]
           newTitle == GenerateThreadTitle(message, config.titleTemplate)
       IN /\ cache' = CacheAfterGet(g)
          /\ sets' = SetsAfterGet(g)
          /\ arrays' = ArraysAfterGet(g)
          /\ UNCHANGED file
          /\ IF WantsRename(SetsAfterGet(g)[config.setRef], m, threads[m].name, newTitle)
             THEN /\ CanSubmit
                  /\ Enqueue(NextTaskId, [NoTask EXCEPT !.kind = "rename", !.st = "queued", !.guild = g,
                                                        !.msg = m, !.title = newTitle])
             ELSE UNCHANGED <<queue, processing, loops, tasks>>

\* a message is edited and handleMessageUpdate runs for it; fetched says how
\* the handler got the message: whole, partial and fetched, or not at all
HandleMessageUpdate(m, content, fetched, readOk) ==
  /\ msgs[m].st = "posted"
  /\ msgs[m].edits < MaxEdits
  /\ msgs' = [msgs EXCEPT ![m].content = content, ![m].edits = @ + 1,
                          ![m].upd = IF fetched = "fetchFailed" \/ msgs[m].guild = 0 \/ ~threads[m].exists
                                     THEN "skipped"
                                     ELSE IF GetReturns(msgs[m].guild, readOk) THEN "ran" ELSE "getFailed"]
  /\ IF fetched = "fetchFailed" \/ msgs[m].guild = 0 \/ ~threads[m].exists
     THEN UNCHANGED <<queue, processing, loops, tasks, cvars>>
     ELSE UpdateThreadTitle(m, msgs[m].guild, MessageOf(1, FALSE, FALSE, FALSE, content), readOk)
  /\ UNCHANGED <<retryDelay, doneSeq, pure, xvars, threads, calls, modal>>

\* handleRenameModal: the thread is fetched and thread.setName(newName) resolves
RenameModalSetName(m, newName) ==
  /\ threads[m].exists
  /\ modal[m] = "idle"
  /\ threads' = [threads EXCEPT ![m].name = Slice(newName, MaxTitleLen), ![m].by = "human", ![m].human = TRUE]
  /\ modal' = [modal EXCEPT ![m] = "mark"]
  /\ UNCHANGED <<qvars, pure, xvars, msgs, calls, cvars>>

\* markThreadAsManuallyRenamed(guildId, threadId): get, add, set; every error
\* is logged and swallowed
MarkThreadAsManuallyRenamed(g, m, readOk, writeOk) ==
  IF ~GetReturns(g, readOk)
  THEN UNCHANGED cvars
  ELSE LET config == CacheAfterGet(g)[g]
           added == [SetsAfterGet(g) EXCEPT ![config.setRef] = SetAdd(@, m)]
       IN /\ cache' = CacheAfterGet(g)
          /\ sets' = added
          /\ arrays' = ArraysAfterGet(g)
          /\ file' = IF writeOk THEN [file EXCEPT ![g] = Serialize(config, ArraysAfterGet(g), added)] ELSE file

\* handleRenameModal: after the rename, the thread is marked and the reply sent
RenameModalMark(m, readOk, writeOk) ==
  /\ modal[m] = "mark"
  /\ modal' = [modal EXCEPT ![m] = "idle"]
  /\ MarkThreadAsManuallyRenamed(msgs[m].guild, m, readOk, writeOk)
  /\ UNCHANGED <<qvars, pure, xvars, msgs, threads, calls>>

\* the service before any event
InitService ==
  /\ msgs = [m \in Msgs |-> NoMessage]
  /\ threads = [m \in Msgs |-> NoThread]
  /\ calls = [m \in Msgs |-> NoCreate]
  /\ modal = [m \in Msgs |-> "idle"]
  /\ cache = [g \in Guilds |-> NoConfig]
  /\ sets = [r \in Refs |-> <<>>]
  /\ arrays = [r \in Refs |-> <<>>]
  /\ cmd = NoCmd
  /\ InitStore
  /\ InitReminders
  /\ InitCompletions

\* configurations an earlier run of the bot has persisted
PersistedConfigs ==
  {[NoFile EXCEPT !.exists = TRUE, !.enabledChannels = <<1>>],
   [NoFile EXCEPT !.exists = TRUE, !.enabledChannels = <<1>>, !.includeBots = TRUE,
                  !.titleTemplate = Template(<<"T">>), !.replyMessage = Template(<<"h", "i">>)]}

Init ==
  /\ InitQueue
  /\ InitService
  /\ pure = NoCall
  /\ file \in {[g \in Guilds |-> IF g = 1 THEN f ELSE NoFile] : f \in PersistedConfigs}

Next ==
  \/ \E m \in Msgs, g \in Guilds \cup {0}, c \in Channels, b \in BOOLEAN, s \in BOOLEAN, i \in BOOLEAN,
        x \in EditContents, p \in PermOutcomes, r \in BOOLEAN :
       HandleMessageCreate(m, g, c, b, s, i, x, p, r)
  \/ \E m \in Msgs, n \in HumanNames : MemberStartsThread(m, n)
  \/ \E m \in Msgs, x \in EditContents, f \in {"whole", "fetched", "fetchFailed"}, r \in BOOLEAN :
       HandleMessageUpdate(m, x, f, r)
  \/ \E m \in Msgs, n \in HumanNames : RenameModalSetName(m, n)
  \/ \E m \in Msgs, r \in BOOLEAN, w \in BOOLEAN : RenameModalMark(m, r, w)
  \/ \E l \in LoopIds : StartThreadResolves(l)
  \/ \E l \in LoopIds : TaskSucceeds(l)
  \/ \E l \in LoopIds, err \in Errors : ReplyFails(l, err)
  \/ \E l \in LoopIds, err \in Errors : TaskRateLimited(l, err)
  \/ \E l \in LoopIds, err \in Errors : TaskFails(l, err)
  \/ \E l \in LoopIds : DelayDone(l)
  \/ \E l \in LoopIds : BackoffDone(l)

Spec == Init /\ [][Next]_vars

\* ------------------------------------------------- /auto-thread test
\* the test command, members' messages and the queue that serves both
NextT ==
  \/ \E m \in Msgs, g \in Guilds, c \in Channels, t \in BOOLEAN, p \in PermOutcomes, r \in BOOLEAN :
       HandleTest(m, g, c, t, p, r)
  \/ \E m \in Msgs, c \in Channels, b \in BOOLEAN, x \in EditContents, p \in PermOutcomes :
       HandleMessageCreate(m, 1, c, b, FALSE, FALSE, x, p, TRUE)
  \/ \E m \in Msgs, n \in HumanNames : MemberStartsThread(m, n)
  \/ \E l \in LoopIds : StartThreadResolves(l)
  \/ \E l \in LoopIds : TaskSucceeds(l)
  \/ \E l \in LoopIds, err \in Errors : ReplyFails(l, err)
  \/ \E l \in LoopIds, err \in Errors : TaskRateLimited(l, err)
  \/ \E l \in LoopIds, err \in Errors : TaskFails(l, err)
  \/ \E l \in LoopIds : DelayDone(l)
  \/ \E l \in LoopIds : BackoffDone(l)

SpecT == Init /\ [][NextT]_vars

\* C34: /auto-thread test on an enabled text channel where the bot holds
\* Create Public Threads creates a thread on the test message it posts and
\* replies "Test successful"; it replies "Test failed" only when no thread
\* is created.  Stated on every message the command posted: the reply is
\* "successful", and a "failed" reply never stands beside a thread the bot
\* created on that message.
C34_TestReportsTheThread ==
  \A m \in Msgs :
    (msgs[m].st = "posted" /\ msgs[m].test # "none") =>
      /\ msgs[m].test = "successful"
      /\ msgs[m].test = "failed" => ~(threads[m].exists /\ threads[m].by = "create")

\* the second half alone: a "failed" reply beside a thread the bot created
C34_FailedOnlyWithoutThread ==
  \A m \in Msgs :
    msgs[m].test = "failed" => ~(threads[m].exists /\ threads[m].by = "create")

\* ------------------------------------------------- config store callers
MaxCmds == 3     \* commands and restarts in one run

ValidArchiveDurations == {60, 1440, 4320, 10080}
Durations == {60, 30}                 \* the duration option: one valid, one not
TemplateOptions == {NoTemplate, Template(<<"T">>)}   \* the template option: absent or given

\* the record of a command: which one, for which guild, how its
\* configStore.set went ("none": not reached) and the config it passed
Ran(op, g, outcome, value) ==
  [n |-> cmd.n + 1, op |-> op, guild |-> g, set |-> outcome,
   configured |-> cmd.configured \cup {g},
   stored |-> IF outcome = "ok" THEN [cmd.stored EXCEPT ![g] = [has |-> TRUE, val |-> value]]
              ELSE cmd.stored]

\* set(guildId, config) called with the object get returned, which the caller
\* has already changed in place: the cache holds that object whether or not
\* writeFile succeeds
ConfigStoreSet(g, config, arrs, sts, writeOk) ==
  /\ file' = IF writeOk THEN [file EXCEPT ![g] = Serialize(config, arrs, sts)] ELSE file
  /\ cache' = [CacheAfterGet(g) EXCEPT ![g] = config]
  /\ arrays' = arrs
  /\ sets' = sts

\* a command that ends before configStore.set: at most the get took effect
NoSet(g, op, got) ==
  /\ IF got
     THEN cache' = CacheAfterGet(g) /\ sets' = SetsAfterGet(g) /\ arrays' = ArraysAfterGet(g)
     ELSE UNCHANGED <<cache, sets, arrays>>
  /\ file' = file
  /\ cmd' = [cmd EXCEPT !.n = @ + 1, !.op = op, !.guild = g, !.set = "none"]

Outcome(writeOk) == IF writeOk THEN "ok" ELSE "failed"

\* /auto-thread enable
HandleEnable(g, channelId, isText, readOk, writeOk) ==
  /\ cmd.n < MaxCmds
  /\ UNCHANGED <<qvars, pure, msgs, threads, calls, modal, rvars, uvars, svars>>
  /\ IF ~isText \/ ~GetReturns(g, readOk) THEN NoSet(g, "enable", FALSE)
     ELSE LET config == CacheAfterGet(g)[g]
              arrs == ArraysAfterGet(g)
          IN IF Includes(arrs[config.chanRef], channelId) THEN NoSet(g, "enable", TRUE)
             ELSE LET pushed == [arrs EXCEPT ![config.chanRef] = Append(@, channelId)]
                  IN /\ ConfigStoreSet(g, config, pushed, SetsAfterGet(g), writeOk)
                     /\ cmd' = Ran("enable", g, Outcome(writeOk),
                                   ConfigValue(config, pushed, SetsAfterGet(g)))

\* /auto-thread disable: the filtered array is a new one, owned by the config
HandleDisable(g, channelId, readOk, writeOk) ==
  /\ cmd.n < MaxCmds
  /\ UNCHANGED <<qvars, pure, msgs, threads, calls, modal, rvars, uvars, svars>>
  /\ IF ~GetReturns(g, readOk) THEN NoSet(g, "disable", FALSE)
     ELSE LET got == CacheAfterGet(g)[g]
              arrs == ArraysAfterGet(g)
          IN IF ~Includes(arrs[got.chanRef], channelId) THEN NoSet(g, "disable", TRUE)
             ELSE LET config == [got EXCEPT !.chanRef = g]
                      filtered == [arrs EXCEPT ![g] =
                                     SelectSeq(arrs[got.chanRef], LAMBDA id : id # channelId)]
                  IN /\ ConfigStoreSet(g, config, filtered, SetsAfterGet(g), writeOk)
                     /\ cmd' = Ran("disable", g, Outcome(writeOk),
                                   ConfigValue(config, filtered, SetsAfterGet(g)))

\* /auto-thread set replymessage | titletemplate | archiveduration
HandleSetSubcommand(g, subcommand, template, duration, readOk, writeOk) ==
  /\ cmd.n < MaxCmds
  /\ UNCHANGED <<qvars, pure, msgs, threads, calls, modal, rvars, uvars, svars>>
  /\ IF ~GetReturns(g, readOk) THEN NoSet(g, subcommand, FALSE)
     ELSE IF subcommand = "archiveduration" /\ duration \notin ValidArchiveDurations
     THEN NoSet(g, subcommand, TRUE)
     ELSE LET got == CacheAfterGet(g)[g]
              config == CASE subcommand = "replymessage" -> [got EXCEPT !.replyMessage = template]
                          [] subcommand = "titletemplate" -> [got EXCEPT !.titleTemplate = template]
                          [] OTHER -> [got EXCEPT !.archiveDuration = duration]
          IN /\ ConfigStoreSet(g, config, ArraysAfterGet(g), SetsAfterGet(g), writeOk)
             /\ cmd' = Ran(subcommand, g, Outcome(writeOk),
                           ConfigValue(config, ArraysAfterGet(g), SetsAfterGet(g)))

\* /auto-thread status and list: the config is read and shown
HandleStatus(g, readOk) ==
  /\ cmd.n < MaxCmds
  /\ UNCHANGED <<qvars, pure, msgs, threads, calls, modal, rvars, uvars, svars>>
  /\ NoSet(g, "status", GetReturns(g, readOk))

\* a human rename of thread m of guild g is recorded
MarkThread(g, m, readOk, writeOk) ==
  /\ cmd.n < MaxCmds
  /\ UNCHANGED <<qvars, pure, msgs, threads, calls, modal, rvars, uvars, svars>>
  /\ MarkThreadAsManuallyRenamed(g, m, readOk, writeOk)
  /\ cmd' = IF ~GetReturns(g, readOk)
            THEN [cmd EXCEPT !.n = @ + 1, !.op = "mark", !.guild = g, !.set = "none"]
            ELSE Ran("mark", g, Outcome(writeOk), ConfigValue(cache'[g], arrays', sets'))

\* the process is restarted: the module is loaded again, with an empty cache
\* and a fresh DEFAULT_CONFIG; the files stay
Restart ==
  /\ cmd.n < MaxCmds
  /\ UNCHANGED <<qvars, pure, msgs, threads, calls, modal, file, rvars, uvars, svars>>
  /\ cache' = [g \in Guilds |-> NoConfig]
  /\ sets' = [r \in Refs |-> <<>>]
  /\ arrays' = [r \in Refs |-> <<>>]
  /\ cmd' = [cmd EXCEPT !.n = @ + 1, !.op = "restart", !.guild = 0, !.set = "none"]

InitC ==
  /\ InitQueue
  /\ InitService
  /\ pure = NoCall
  /\ file \in {[g \in Guilds |-> IF g = 1 THEN f ELSE NoFile] : f \in PersistedConfigs \cup {NoFile}}

NextC ==
  \/ \E g \in Guilds, c \in Channels, t \in BOOLEAN, r \in BOOLEAN, w \in BOOLEAN : HandleEnable(g, c, t, r, w)
  \/ \E g \in Guilds, c \in Channels, r \in BOOLEAN, w \in BOOLEAN : HandleDisable(g, c, r, w)
  \/ \E g \in Guilds, s \in {"replymessage", "titletemplate", "archiveduration"},
        t \in TemplateOptions, d \in Durations, r \in BOOLEAN, w \in BOOLEAN :
       HandleSetSubcommand(g, s, t, d, r, w)
  \/ \E g \in Guilds, r \in BOOLEAN : HandleStatus(g, r)
  \/ \E g \in Guilds, m \in Msgs, r \in BOOLEAN, w \in BOOLEAN : MarkThread(g, m, r, w)
  \/ Restart

SpecC == InitC /\ [][NextC]_vars

\* ------------------------------------- overlapping store calls on their own
InitS ==
  /\ InitQueue
  /\ InitService
  /\ pure = NoCall
  /\ file \in {[g \in Guilds |-> IF g = 1 THEN f ELSE NoFile] : f \in PersistedConfigs \cup {NoFile}}

NextS ==
  \/ \E o \in OpIds, k \in {"get", "update"}, g \in Guilds, p \in Partials : StoreCall(o, k, g, p)
  \/ \E o \in OpIds, r \in BOOLEAN : ReadSettles(o, r)
  \/ \E o \in OpIds : UpdateMerges(o)
  \/ \E o \in OpIds, w \in BOOLEAN : WriteSettles(o, w)
  \/ \E o \in OpIds : CallerChanges(o)

SpecS == InitS /\ [][NextS]_vars

\* --------------------------------------------- reminder service on its own
InitR ==
  /\ InitQueue
  /\ InitService
  /\ pure = NoCall
  /\ file = [g \in Guilds |-> NoFile]

NextR ==
  \/ \E g \in Guilds, u \in Users : ScheduleReminder(g, u)
  \/ \E g \in Guilds, u \in Users : CancelReminder(g, u)
  \/ \E s \in SweepIds : ProcessPendingReminders(s)
  \/ \E s \in SweepIds : FetchResolves(s)
  \/ \E s \in SweepIds : FetchFails(s)
  \/ \E s \in SweepIds, ok \in BOOLEAN : SendSettles(s, ok)
  \/ \E d \in ClockSteps : AdvanceClock(d)

SpecR == InitR /\ [][NextR]_vars

\* ---------------------------------------- completion tracking on its own
InitU ==
  /\ InitQueue
  /\ InitService
  /\ pure = NoCall
  /\ file = [g \in Guilds |-> NoFile]

NextU ==
  \/ \E h \in SubIds, u \in GuildMembers, f \in FlowTypes, s \in GuildMembers : HandleModalSubmit(h, u, f, s)
  \/ \E h \in SubIds, o \in {"posted", "noChannel", "failed"} : PostSettles(h, o)
  \/ \E h \in SubIds, ok \in BOOLEAN : ReplySettles(h, ok)
  \/ \E h \in SubIds, ok \in BOOLEAN : MemberFetched(h, ok)
  \/ \E h \in SubIds, ok \in BOOLEAN : RoleAddSettles(h, ok)
  \/ CleanupCompletions
  \/ \E d \in ClockSteps : AdvanceClock(d)

SpecU == InitU /\ [][NextU]_vars

\* ------------------------------------------- starting the intro flow
NextI ==
  \/ \E u \in GuildMembers, ok \in BOOLEAN : GuildMemberAdd(u, ok)
  \/ \E i \in GuildMembers, m \in BOOLEAN, r \in BOOLEAN, n \in SUBSET GuildMembers : PingIntro(i, m, r, n)
  \/ \E i \in GuildMembers, r \in BOOLEAN, c \in BOOLEAN, n \in SUBSET GuildMembers : HandlePingIntro(i, r, c, n)
  \/ \E d \in ClockSteps : AdvanceClock(d)

SpecI == InitU /\ [][NextI]_vars

\* ------------------------------------- members joining and filing the forms
NextF ==
  \/ \E u \in GuildMembers, ok \in BOOLEAN : GuildMemberAdd(u, ok)
  \/ \E h \in SubIds, u \in GuildMembers, f \in FlowTypes, s \in GuildMembers : HandleModalSubmit(h, u, f, s)
  \/ \E h \in SubIds, o \in {"posted", "noChannel", "failed"} : PostSettles(h, o)
  \/ \E h \in SubIds, ok \in BOOLEAN : ReplySettles(h, ok)
  \/ \E h \in SubIds, ok \in BOOLEAN : MemberFetched(h, ok)
  \/ \E h \in SubIds, ok \in BOOLEAN : RoleAddSettles(h, ok)

SpecF == InitU /\ [][NextF]_vars

\* --------------------------------- prompts pressed and filed by any member
NextV ==
  \/ \E u \in GuildMembers, ok \in BOOLEAN : GuildMemberAdd(u, ok)
  \/ \E s \in GuildMembers, u \in GuildMembers, f \in FlowTypes : OpenModal(s, u, f)
  \/ \E h \in SubIds, u \in GuildMembers, f \in FlowTypes, s \in GuildMembers : HandleModalSubmit(h, u, f, s)
  \/ \E h \in SubIds, o \in {"posted", "noChannel", "failed"} : PostSettles(h, o)
  \/ \E h \in SubIds, ok \in BOOLEAN : ReplySettles(h, ok)
  \/ \E h \in SubIds, ok \in BOOLEAN : MemberFetched(h, ok)
  \/ \E h \in SubIds, ok \in BOOLEAN : RoleAddSettles(h, ok)

SpecV == InitU /\ [][NextV]_vars

\* --------------------------- joins, forms and the hourly sweep together
\* one member, whose own forms are handled one at a time, and sweeps that
\* do not overlap
NextL ==
  \/ \E u \in Users, ok \in BOOLEAN : GuildMemberAdd(u, ok)
  \/ \E u \in Users, f \in FlowTypes : HandleModalSubmit(1, u, f, u)
  \/ \E o \in {"posted", "failed"} : PostSettles(1, o)
  \/ \E ok \in BOOLEAN : ReplySettles(1, ok)
  \/ \E ok \in BOOLEAN : MemberFetched(1, ok)
  \/ \E ok \in BOOLEAN : RoleAddSettles(1, ok)
  \/ ProcessPendingReminders(1)
  \/ FetchResolves(1)
  \/ FetchFails(1)
  \/ \E ok \in BOOLEAN : SendSettles(1, ok)
  \/ \E d \in ClockSteps : AdvanceClock(d)

SpecL == InitU /\ [][NextL]_vars

\* ---------------------------------------------- inputs of the pure checks
PadLen == 3      \* white space put around or before a content
LongBy == 20     \* how far the longest inputs exceed the title limit

ContentLens == {0, 1, First50Len - 1, First50Len, First50Len + 1, MaxTitleLen, MaxTitleLen + 1, MaxTitleLen + LongBy}
Contents ==
  {Rep("a", n) : n \in ContentLens}
  \cup {Rep(" ", PadLen), Rep(" ", PadLen) \o <<"h", "i">> \o Rep("\t", PadLen),
        Rep(" ", First50Len) \o <<"h", "i">>,
        Rep("a", First50Len - 1) \o <<" ">> \o Rep("b", First50Len),
        <<"$", "&", "!">>}
Templates ==
  {NoTemplate, Template(<<>>), Template(PhFirst50), Template(PhFirst100),
   Template(PhFirst100 \o PhFirst100),
   Template(PhUsername \o <<":", " ">> \o PhFirst100),
   Template(<<"[">> \o PhChannelName \o <<"]", " ">> \o PhDisplayName \o <<" ">> \o PhTag),
   Template(Rep("x", MaxTitleLen + LongBy)),
   Template(<<"$", "{", "x", "}">>)}
Authors ==
  {[username |-> <<"b", "o", "b">>, displayName |-> <<>>, tag |-> <<"b", "o", "b", "#", "1">>],
   [username |-> <<"b", "o", "b">>, displayName |-> <<"B", " ", "B">>, tag |-> <<"b", "o", "b", "#", "1">>],
   [username |-> <<"b", "o", "b">>, displayName |-> PhFirst50, tag |-> <<"$", "$">>]}
ChannelNames == {<<>>, <<"g", "e", "n">>}
ChannelLists == {<<>>, <<1>>, <<2>>, <<1, 2>>, <<2, 1>>}

\* the calls the pure checks make: one function and its arguments
ShouldCalls ==
  {[NoCall EXCEPT !.fn = "should", !.message = FlagMessage(a, c, b, s), !.config = PureConfig(l, i)] :
     a \in BOOLEAN, c \in Channels, b \in BOOLEAN, s \in BOOLEAN, l \in ChannelLists, i \in BOOLEAN}
TitleCalls ==
  {[NoCall EXCEPT !.fn = "title", !.message = TextMessage(c, a, n), !.template = t] :
     c \in Contents, a \in Authors, n \in ChannelNames, t \in Templates}

CallShouldCreateThread ==
  /\ pure.fn = "should" /\ ~pure.done
  /\ pure' = [pure EXCEPT !.done = TRUE, !.out = ShouldCreateThread(pure.message, pure.config)]
  /\ UNCHANGED <<qvars, msgs, threads, calls, modal, cvars, xvars>>

CallGenerateThreadTitle ==
  /\ pure.fn = "title" /\ ~pure.done
  /\ pure' = [pure EXCEPT !.done = TRUE, !.title = GenerateThreadTitle(pure.message, pure.template)]
  /\ UNCHANGED <<qvars, msgs, threads, calls, modal, cvars, xvars>>

InitP == InitQueue /\ InitService /\ file = [g \in Guilds |-> NoFile] /\ pure \in ShouldCalls \cup TitleCalls

NextP == CallShouldCreateThread \/ CallGenerateThreadTitle

SpecP == InitP /\ [][NextP]_vars

\* ------------------------------------------------------ queue on its own
InitQ == InitQueue /\ InitService /\ file = [g \in Guilds |-> NoFile] /\ pure = NoCall

NextQ ==
  \/ \E g \in Guilds : EnqueueOp(g)
  \/ \E l \in LoopIds : TaskSucceeds(l)
  \/ \E l \in LoopIds, err \in Errors : TaskRateLimited(l, err)
  \/ \E l \in LoopIds, err \in Errors : TaskFails(l, err)
  \/ \E l \in LoopIds : DelayDone(l)
  \/ \E l \in LoopIds : BackoffDone(l)

SpecQ == InitQ /\ [][NextQ]_vars

\* runs in which no task fails with anything but a rate-limit error; every
\* pending platform call settles and every timer fires
NextQOk ==
  \/ \E g \in Guilds : EnqueueOp(g)
  \/ \E l \in LoopIds : TaskSucceeds(l)
  \/ \E l \in LoopIds, err \in Errors : TaskRateLimited(l, err)
  \/ \E l \in LoopIds : DelayDone(l)
  \/ \E l \in LoopIds : BackoffDone(l)

FairSpecQ ==
  /\ InitQ /\ [][NextQOk]_vars
  /\ WF_vars(\E l \in LoopIds : TaskSucceeds(l) \/ \E err \in Errors : TaskRateLimited(l, err))
  /\ WF_vars(\E l \in LoopIds : DelayDone(l))
  /\ WF_vars(\E l \in LoopIds : BackoffDone(l))

\* the queue with failures of every kind and retries without limit; every
\* pending platform call settles, one way or another, and every timer fires
NextG ==
  \/ NextQ
  \/ \E l \in LoopIds, err \in Errors : TaskRateLimitedAgain(l, err)

Settles(l) ==
  \/ TaskSucceeds(l)
  \/ \E err \in Errors : TaskRateLimited(l, err) \/ TaskRateLimitedAgain(l, err) \/ TaskFails(l, err)

FairSpecG ==
  /\ InitQ /\ [][NextG]_vars
  /\ WF_vars(\E l \in LoopIds : Settles(l))
  /\ WF_vars(\E l \in LoopIds : DelayDone(l))
  /\ WF_vars(\E l \in LoopIds : BackoffDone(l))

\* ------------------------------------------------------- queue properties
ActiveLoops == {l \in LoopIds : loops[l].pc # "idle"}
Running == {t \in TaskIds : tasks[t].st = "running"}
Submitted == {t \in TaskIds : tasks[t].kind # "none"}
InQueue(t) == \E i \in 1..Len(queue) : queue[i] = t

\* C1: at any moment at most one submitted task is executing (started and not
\* settled) and at most one activation of the consumer loop exists, whatever
\* the guilds of the callers and whenever their enqueue calls arrive.
C1_OneAtATime ==
  /\ Cardinality(Running) <= 1
  /\ Cardinality(ActiveLoops) <= 1
  /\ \A l \in LoopIds : loops[l].pc = "task" <=> loops[l].task \in Running

\* a task of one guild is executing while a task of another guild, enqueued
\* meanwhile, waits and an earlier task has completed
C1_Witness ==
  \E t, u \in TaskIds :
    /\ tasks[t].st = "running" /\ tasks[u].st = "queued"
    /\ tasks[t].guild # tasks[u].guild
    /\ Len(doneSeq) >= 1

StrictlyIncreasing(s) == \A i, j \in 1..Len(s) : i < j => s[i] < s[j]

\* C2: when no task fails other than by rate limiting, every submitted task is
\* eventually executed successfully, and successful executions occur in
\* submission order (task ids are handed out in submission order).
C2_OrderedCompletion ==
  /\ [](StrictlyIncreasing(doneSeq))
  /\ \A t \in TaskIds : [](tasks[t].kind # "none" => <>(tasks[t].st = "ok"))

\* three tasks, the second rate-limited once, completed in the order 1, 2, 3
C2_Witness ==
  /\ doneSeq = <<1, 2, 3>>
  /\ tasks[1].limited = 0 /\ tasks[2].limited = 1 /\ tasks[3].limited = 0

\* C3: a task that failed with an error other than a rate-limit signal was
\* executed exactly once more than it was rate-limited and is gone from the
\* queue and from every consumer, and the consumer goes on: a non-empty queue
\* still has its active consumer and an idle consumer is marked idle.
C3_DroppedNotRetried ==
  \A t \in TaskIds : tasks[t].st = "dropped" =>
    /\ ~InQueue(t)
    /\ \A l \in LoopIds : loops[l].task # t
    /\ tasks[t].attempts = tasks[t].limited + 1
    /\ processing <=> ActiveLoops # {}
    /\ queue # <<>> => ActiveLoops # {}

\* a task was dropped and a task submitted after it has completed
C3_Witness ==
  \E t, u \in TaskIds :
    /\ t < u
    /\ tasks[t].st = "dropped"
    /\ tasks[u].st = "ok"



\* C26: between any two steps, a non-empty queue has its active consumer and
\* the flag says so; the consumer is marked idle only with the queue empty
\* and no loop left; and every task that waits is in the queue with a
\* consumer running, whenever it was enqueued.
C26_NeverStranded ==
  /\ queue # <<>> => (processing /\ ActiveLoops # {})
  /\ ~processing => (queue = <<>> /\ ActiveLoops = {})
  /\ \A t \in TaskIds : tasks[t].st = "queued" => (InQueue(t) /\ processing /\ ActiveLoops # {})

\* the consumer has stopped on the empty queue after it ran a task that was
\* rate-limited and re-queued and dropped another, and a task can still come
C26_Witness ==
  /\ ~processing /\ queue = <<>> /\ ActiveLoops = {}
  /\ \E t, u \in TaskIds : tasks[t].st = "ok" /\ tasks[t].limited > 0 /\ tasks[u].st = "dropped"
  /\ CanSubmit

\* C27: the backoff delay starts at 1000 ms and stays within 1000..60000; a
\* rate-limit failure leaves it and starts a sleep of the server-suggested
\* delay when the error has one, of the backoff delay otherwise; the delay is
\* doubled, up to 60000, when that sleep ends; a success resets it to 1000;
\* any other failure leaves it unchanged.
C27_Backoff ==
  /\ [](retryDelay >= 1000 /\ retryDelay <= 60000)
  /\ [][\A l \in LoopIds :
         /\ (loops[l].pc = "task" /\ loops'[l].pc = "backoff") =>
              /\ retryDelay' = retryDelay
              /\ loops'[l].ms = IF loops'[l].retryAfter # 0 THEN loops'[l].retryAfter * 1000
                                ELSE retryDelay
         /\ (loops[l].pc = "backoff" /\ loops'[l].pc # "backoff") =>
              retryDelay' = IF retryDelay * 2 <= 60000 THEN retryDelay * 2 ELSE 60000
         /\ (loops[l].pc = "task" /\ loops'[l].pc = "delay") =>
              (retryDelay' = 1000 /\ tasks'[loops[l].task].st = "ok")
         /\ (loops[l].pc = "task" /\ tasks'[loops[l].task].st = "dropped") =>
              retryDelay' = retryDelay]_vars
  /\ retryDelay = 1000

\* the delay has reached the ceiling, past two failures that left it as it was
C27_Witness ==
  /\ retryDelay = 60000
  /\ Cardinality({t \in TaskIds : tasks[t].st = "dropped"}) = 2

\* -------------------------------------------- decision engine properties
\* C6: shouldCreateThread is true exactly when the message is not inside a
\* thread, its channel is enabled, its author is not a bot or bots are
\* included, and it is not a system message; it is false for every message
\* inside a thread.
C6_ShouldCreateThread ==
  (pure.fn = "should" /\ pure.done) =>
    /\ pure.out <=> /\ ~pure.message.inThread
                    /\ pure.message.channelId \in {pure.config.enabledChannels[i] : i \in 1..Len(pure.config.enabledChannels)}
                    /\ (~pure.message.bot \/ pure.config.includeBots)
                    /\ ~pure.message.system
    /\ pure.message.inThread => ~pure.out

\* a message inside a thread whose every other field would allow a thread
C6_Witness ==
  /\ pure.fn = "should" /\ pure.done
  /\ pure.message.inThread /\ ~pure.message.bot /\ ~pure.message.system
  /\ Includes(pure.config.enabledChannels, pure.message.channelId)
  /\ ~pure.out

\* C7: the title generateThreadTitle returns is at most 100 characters long,
\* with or without a template.
C7_TitleLength == (pure.fn = "title" /\ pure.done) => Len(pure.title) <= MaxTitleLen

\* a template whose substituted text is longer than the limit, cut to the limit
C7_Witness ==
  /\ pure.fn = "title" /\ pure.done
  /\ pure.template.has /\ Len(pure.template.val) < MaxTitleLen
  /\ Len(Substitute(pure.message, pure.template.val)) > MaxTitleLen
  /\ Len(pure.title) = MaxTitleLen

\* C8 as stated: with no template the title is "New thread" when the content
\* is empty and otherwise the trimmed first 50 characters of the content.
C8_AsStated ==
  (pure.fn = "title" /\ pure.done /\ ~pure.template.has) =>
    pure.title = IF pure.message.content = <<>> THEN NewThread
                 ELSE Trim(Slice(pure.message.content, First50Len))

\* C8 amended: with no template the title is "New thread" when the first 50
\* characters of the content are empty or all white space, and otherwise the
\* trimmed first 50 characters of the content.
C8_DefaultTitle ==
  (pure.fn = "title" /\ pure.done /\ ~pure.template.has) =>
    pure.title = IF \A i \in 1..Min(First50Len, Len(pure.message.content)) : pure.message.content[i] \in WhiteSpace
                 THEN NewThread
                 ELSE Trim(Slice(pure.message.content, First50Len))

\* no template and a content whose first 50 characters are white space
\* followed by text: the fallback title is returned
C8_Witness ==
  /\ pure.fn = "title" /\ pure.done /\ ~pure.template.has
  /\ Len(pure.message.content) > First50Len
  /\ Trim(pure.message.content) # <<>>
  /\ pure.title = NewThread

\* ---------------------------------------------- thread service properties
StartTasks(m) == {t \in TaskIds : tasks[t].kind = "start" /\ tasks[t].msg = m}
RenameTasks(m) == {t \in TaskIds : tasks[t].kind = "rename" /\ tasks[t].msg = m}

\* C4 as stated: when the message passes shouldCreateThread, the permission
\* is held and the queued thread start has succeeded, createThreadForMessage
\* has returned the thread; it has returned null only when no thread was
\* created for the message.
C4_ReturnsCreatedThread ==
  \A m \in Msgs : calls[m].called =>
    /\ (calls[m].eligible /\ calls[m].perm = "granted" /\ \E t \in StartTasks(m) : tasks[t].st = "ok")
         => calls[m].ret = "thread"
    /\ calls[m].ret = "null" => ~calls[m].captured

\* C5: when the CreatePublicThreads permission is missing, the call has
\* returned null and no thread-start task for the message exists, however the
\* notification of a guild manager went.
C5_NoPermissionNoTask ==
  \A m \in Msgs : (calls[m].called /\ calls[m].perm \in MissingPerm) =>
    /\ calls[m].ret = "null"
    /\ StartTasks(m) = {}
    /\ ~calls[m].captured

\* a message that passed shouldCreateThread, the permission missing and the
\* direct message to the guild manager failed
C5_Witness ==
  \E m \in Msgs :
    /\ calls[m].called /\ calls[m].eligible
    /\ calls[m].perm = "missingDmFailed"
    /\ calls[m].ret = "null"

\* C9: a step in which updateThreadTitle runs (past its config lookup) submits
\* no task when the thread is in the guild's manuallyRenamedThreads or the
\* recomputed title equals the thread's name, and otherwise submits exactly
\* one task: a rename of that thread to the recomputed title.
C9_UpdateThreadTitle ==
  [][\A m \in Msgs :
       (msgs'[m].edits = msgs[m].edits + 1 /\ msgs'[m].upd = "ran") =>
         LET g == msgs[m].guild
             renamed == sets'[cache'[g].setRef]
             newTitle == GenerateThreadTitle(MessageOf(1, FALSE, FALSE, FALSE, msgs'[m].content),
                                             cache'[g].titleTemplate)
             new == {t \in TaskIds : tasks[t].kind = "none" /\ tasks'[t].kind # "none"}
         IN IF m \in {renamed[i] : i \in 1..Len(renamed)} \/ newTitle = threads[m].name
            THEN new = {} /\ queue' = queue
            ELSE \E t \in new :
                   /\ new = {t}
                   /\ tasks'[t].kind = "rename" /\ tasks'[t].msg = m /\ tasks'[t].title = newTitle
                   /\ (queue' = Append(queue, t) \/ tasks'[t].st = "running")]_vars

\* a thread was renamed by hand and marked, updateThreadTitle then ran with a
\* content whose title differs from the thread's name, and no rename task
\* was ever submitted for the thread
C9_Witness ==
  \E m \in Msgs :
    /\ msgs[m].upd = "ran"
    /\ threads[m].human /\ modal[m] = "idle"
    /\ cache[msgs[m].guild].loaded
    /\ Includes(sets[cache[msgs[m].guild].setRef], m)
    /\ GenerateThreadTitle(MessageOf(1, FALSE, FALSE, FALSE, msgs[m].content),
                           cache[msgs[m].guild].titleTemplate) # threads[m].name
    /\ RenameTasks(m) = {}

\* C10 as stated: once a rename through the rename modal has been applied to
\* a thread, no queued automatic rename of that thread is executed any more:
\* no rename task of the thread starts executing.
C10_NoAutoRenameAfterHuman ==
  [][\A m \in Msgs : threads[m].human =>
       \A t \in RenameTasks(m) : tasks[t].st # "running" => tasks'[t].st # "running"]_vars

\* ------------------------------------------------- config store properties
\* C11 as stated: a guild without a persisted record, for which no command
\* has ever run, gets the default config from get: no enabled channels,
\* includeBots false, archiveDuration 1440, no manually renamed threads.
C11_DefaultsForNewGuild ==
  \A g \in Guilds : (~file[g].exists /\ g \notin cmd.configured) => GetValue(g) = DefaultValue

\* C12: after a set(guildId, cfg) that succeeded, a get(guildId) that finds
\* the cache empty reads from the file a config equal to cfg in every field,
\* the channel list and the members of manuallyRenamedThreads included.
C12_RoundTrip ==
  \A g \in Guilds : (cmd.stored[g].has /\ ~cache[g].loaded) =>
    /\ file[g].exists
    /\ GetValue(g) = cmd.stored[g].val

\* after a restart, a stored config with a channel, a template and a
\* manually renamed thread is about to be read back from its file
C12_Witness ==
  \E g \in Guilds :
    /\ cmd.stored[g].has /\ ~cache[g].loaded /\ cmd.op = "restart"
    /\ cmd.stored[g].val.enabledChannels # <<>>
    /\ cmd.stored[g].val.manuallyRenamedThreads # {}
    /\ cmd.stored[g].val.titleTemplate.has

\* C13 as stated: a command whose configStore.set failed leaves the config
\* that get(guildId) returns as it was before the command.
C13_FailedSetKeepsConfig ==
  [][\A g \in Guilds :
       (cmd'.n = cmd.n + 1 /\ cmd'.set = "failed" /\ cmd'.guild = g) =>
         GetValue(g)' = GetValue(g)]_vars

\* C21 as stated: an enable or a mark in guild a leaves the config that
\* get returns for every other guild b as it was, whether b is cached
\* already or still to be default-constructed.
C21_GuildsIsolated ==
  [][\A a, b \in Guilds :
       (a # b /\ cmd'.n = cmd.n + 1 /\ cmd'.guild = a /\ cmd'.op \in {"enable", "mark"}) =>
         GetValue(b)' = GetValue(b)]_vars

\* ------------------------------------------ overlapping store calls: properties
\* C24: when the set of an update succeeds, the cached and the persisted
\* config have the update's own change and, of the other partials, exactly
\* those the config had when the update read it: a change another update
\* stored in between is lost.
C24_UpdateIsReadModifyWrite ==
  [][\A o \in OpIds : (ops[o].pc = "writing" /\ ops'[o].pc = "done") =>
       \A p \in Partials :
         /\ Has(cache'[ops[o].guild], p) <=> (p = ops[o].partial \/ Has(ops[o].current, p))
         /\ Has(file'[ops[o].guild], p) <=> (p = ops[o].partial \/ Has(ops[o].current, p))]_vars

\* two updates of one guild with different fields are both done, and the
\* cached and the persisted config have the change of one of them only
C24_Witness ==
  \E a, b \in OpIds :
    /\ ops[a].kind = "update" /\ ops[b].kind = "update"
    /\ ops[a].pc = "done" /\ ops[b].pc = "done"
    /\ ops[a].guild = ops[b].guild /\ ops[a].partial # ops[b].partial
    /\ ~Has(cache[ops[a].guild], ops[a].partial) /\ Has(cache[ops[a].guild], ops[b].partial)
    /\ ~Has(file[ops[a].guild], ops[a].partial) /\ Has(file[ops[a].guild], ops[b].partial)

\* C25 as stated: as long as no update has replaced the guild's config, every
\* caller that got a config from get holds the object the cache holds, and
\* so all of them read the same values.
C25_OneObjectPerGuild ==
  \A o \in OpIds :
    (/\ ops[o].kind = "get" /\ ops[o].pc \in {"got", "changed"}
     /\ \A u \in OpIds : ~(ops[u].kind = "update" /\ ops[u].guild = ops[o].guild /\ ops[u].pc = "done"))
    => (ops[o].id = heap.cached[ops[o].guild] /\ Held(o) = cache[ops[o].guild])

\* --------------------------------------------- reminder service properties
Unsent(g, u) == {i \in 1..Len(reminders) : Matches(reminders[i], g, u)}

\* C14: at any time the array holds at most one un-sent reminder for a
\* (guildId, userId) pair, whatever schedule, cancel and sweep steps came before.
C14_OneUnsentPerPair ==
  \A g \in Guilds, u \in Users : Cardinality(Unsent(g, u)) <= 1

\* scheduleReminder has just returned without pushing, and the pair has its
\* one pending reminder
C14_Witness ==
  /\ rcmd.op = "schedule" /\ rcmd.effect = "none"
  /\ Cardinality(Unsent(rcmd.guildId, rcmd.userId)) = 1

\* C15: a cancelReminder(g, u) step leaves no un-sent reminder of the pair,
\* removes from the array nothing but the pair's un-sent reminder, and
\* changes no field of any reminder.
C15_CancelRemovesOnlyThePair ==
  [][\A g \in Guilds, u \in Users :
       (rcmd'.op = "cancel" /\ rcmd'.guildId = g /\ rcmd'.userId = u
        /\ sweeps' = sweeps /\ clock' = clock) =>
         /\ reminders' = SelectSeq(reminders, LAMBDA id : ~Matches(id, g, u))
         /\ Len(reminders') >= Len(reminders) - 1
         /\ \A id \in ReminderIds :
              [robjs'[id] EXCEPT !.removed = FALSE] = [robjs[id] EXCEPT !.removed = FALSE]]_vars

\* a cancellation has just removed a reminder while the array keeps an
\* un-sent reminder of another pair and a sent one
C15_Witness ==
  /\ rcmd.op = "cancel" /\ rcmd.effect = "removed"
  /\ robjs[rcmd.id].removed
  /\ Unsent(rcmd.guildId, rcmd.userId) = {}
  /\ \E i \in 1..Len(reminders) : ~robjs[reminders[i]].sent
  /\ \E i \in 1..Len(reminders) : robjs[reminders[i]].sent

\* the reminder a sweep is handling
Current(s) == sweeps[s].list[sweeps[s].i]
\* the sweep s is done with the reminder it was handling
Handled(s) == sweeps[s].pc # "idle" /\ (sweeps'[s].pc = "idle" \/ sweeps'[s].i # sweeps[s].i)

\* C16 as stated: when a sweep is done with a reminder the reminder is marked
\* sent, however its delivery went, and once a delivery of a reminder has
\* failed no sweep starts another delivery of it.
C16_SentAndNeverRetried ==
  [][/\ \A s \in SweepIds : Handled(s) => robjs'[Current(s)].sent
     /\ \A id \in ReminderIds : robjs[id].failed => robjs'[id].tries = robjs[id].tries]_vars

\* C22 as stated: once cancelReminder has removed a reminder, no sendReminder
\* call is started for it and no DM is sent for it.
C22_CancelledNeverDelivered ==
  [][\A id \in ReminderIds : robjs[id].removed =>
       (robjs'[id].tries = robjs[id].tries /\ robjs'[id].dms = robjs[id].dms)]_vars

\* the reminder object is in the array
InReminders(id) == \E i \in 1..Len(reminders) : reminders[i] = id

\* C28: a reminder that is sent stays sent and, when it is in the array,
\* stays there; cancelReminder and scheduleReminder leave every sent reminder
\* as it is; and a reminder changes only by being created un-sent at the end
\* of the array, by being removed while un-sent by a cancellation, and by
\* being marked sent by a sweep.
C28_SentIsTerminal ==
  [][\A id \in ReminderIds :
       /\ robjs[id].sent => (robjs'[id].sent /\ (InReminders(id) => InReminders(id)'))
       /\ (robjs[id].sent /\ rcmd' # rcmd) => robjs'[id] = robjs[id]
       /\ (robjs[id].st = "free" /\ robjs'[id].st # "free") =>
            (/\ ~robjs'[id].sent /\ ~robjs'[id].removed
             /\ reminders' = Append(reminders, id)
             /\ rcmd'.op = "schedule" /\ rcmd'.id = id)
       /\ (~robjs[id].removed /\ robjs'[id].removed) =>
            (~robjs[id].sent /\ ~robjs'[id].sent /\ rcmd'.op = "cancel" /\ rcmd'.id = id)
       /\ (~robjs[id].sent /\ robjs'[id].sent) =>
            \E s \in SweepIds : sweeps[s].pc # "idle" /\ Current(s) = id /\ Handled(s)
       /\ robjs[id].st # "free" =>
            (/\ robjs'[id].st = robjs[id].st /\ robjs'[id].guildId = robjs[id].guildId
             /\ robjs'[id].userId = robjs[id].userId
             /\ robjs'[id].scheduledFor = robjs[id].scheduledFor)]_vars

\* a cancellation for a pair whose reminder is sent has just found nothing to
\* remove, and a new reminder of that pair was scheduled after the sent one
C28_Witness ==
  /\ rcmd.op = "cancel" /\ rcmd.effect = "none"
  /\ \E i, j \in 1..Len(reminders) :
       /\ i < j
       /\ robjs[reminders[i]].sent /\ robjs[reminders[j]].sent
       /\ robjs[reminders[i]].guildId = rcmd.guildId /\ robjs[reminders[i]].userId = rcmd.userId
       /\ robjs[reminders[j]].guildId = rcmd.guildId /\ robjs[reminders[j]].userId = rcmd.userId

\* C32 as stated: for every reminder user.send is called at most once,
\* whichever sweeps hold it.
C32_DeliveredAtMostOnce ==
  \A id \in ReminderIds : robjs[id].dms <= 1

\* C35: a reminder is never delivered early.  A reminder is created with
\* scheduledFor 24 hours after the scheduleReminder call and keeps it; a sweep
\* holds only reminders that were due when it ran; and a sendReminder call or
\* a user.send for a reminder happens only at or after its scheduledFor.
C35_NeverEarly ==
  /\ [](\A s \in SweepIds : \A k \in 1..Len(sweeps[s].list) :
          robjs[sweeps[s].list[k]].scheduledFor <= clock.now)
  /\ [][\A id \in ReminderIds :
          /\ (robjs[id].st = "free" /\ robjs'[id].st # "free") =>
                /\ rcmd'.op = "schedule" /\ rcmd'.id = id
                /\ robjs'[id].scheduledFor = clock.now + ReminderDelayHours
          /\ robjs[id].st # "free" => robjs'[id].scheduledFor = robjs[id].scheduledFor
          /\ (robjs'[id].tries > robjs[id].tries \/ robjs'[id].dms > robjs[id].dms) =>
                /\ robjs[id].st # "free"
                /\ robjs[id].scheduledFor <= clock.now]_vars

\* a sweep has just run: it called sendReminder for a due reminder and left
\* alone a reminder that is in the array, un-sent and not yet due
C35_Witness ==
  /\ clock.cron = clock.now
  /\ \E a, b \in ReminderIds :
       /\ robjs[a].tries >= 1 /\ robjs[a].scheduledFor <= clock.now
       /\ robjs[b].st = "live" /\ ~robjs[b].removed /\ ~robjs[b].sent
       /\ robjs[b].tries = 0 /\ robjs[b].scheduledFor > clock.now

C23_RoleAddedOnce ==
  \A u \in GuildMembers : roles[u].grants <= 1

\* C31 as stated: once no handler of the user is running, every form type in
\* the user's completion set is one whose content was posted publicly, and
\* so is every form type of a set the builder role was granted on.
C31_CreditOnlyForPosted ==
  \A u \in GuildMembers :
    /\ (\A h \in SubIds : subs[h].user # u) =>
         userCompletions[u].completions \subseteq roles[u].posted
    /\ roles[u].builder => roles[u].basis \subseteq roles[u].posted

\* C37: recording a completion is idempotent and monotonic.  A submission of
\* form type f by u leaves u's set as the set before with f added (the same
\* set when f was in it already) and the entry's timestamp at the current
\* time; and a user's set loses a member only in a cleanup pass that evicts
\* the user's entry.
C37_RecordingIdempotentMonotonic ==
  [][\A u \in GuildMembers :
       /\ \A h \in SubIds :
            (subs[h].pc = "idle" /\ subs'[h].pc = "posting" /\ subs'[h].user = u) =>
              /\ userCompletions'[u].has
              /\ userCompletions'[u].completions = userCompletions[u].completions \cup {subs'[h].flowType}
              /\ subs'[h].flowType \in userCompletions[u].completions =>
                    userCompletions'[u].completions = userCompletions[u].completions
              /\ userCompletions'[u].timestamp = clock.now
       /\ ~(userCompletions[u].completions \subseteq userCompletions'[u].completions) =>
            (ucmd'.op = "cleanup" /\ u \in ucmd'.removed)]_vars

\* a form type the user had recorded earlier, beside another one, has just
\* been recorded again at a later time
C37_Witness ==
  /\ ucmd.op = "submit" /\ ucmd.n = 3
  /\ subs[1].pc = "posting" /\ subs[2].pc = "posting"
  /\ subs[1].user = ucmd.user /\ subs[2].user = ucmd.user
  /\ subs[1].flowType = subs[2].flowType
  /\ Cardinality(userCompletions[ucmd.user].completions) = 2
  /\ clock.now > 0 /\ userCompletions[ucmd.user].timestamp = clock.now

\* C18: a cleanup pass deletes exactly the entries whose timestamp lies more
\* than 24 hours before the pass, complete or not, and leaves every other
\* entry as it is; a user whose entry was deleted starts again from nothing,
\* so the next form alone records just that form.
C18_CleanupEvictsExactlyTheStale ==
  [][/\ (ucmd'.op = "cleanup" /\ subs' = subs /\ clock' = clock) =>
        \A u \in GuildMembers :
          IF userCompletions[u].has /\ clock.now - userCompletions[u].timestamp > TtlHours
          THEN ~userCompletions'[u].has /\ ~Completed(userCompletions'[u])
          ELSE userCompletions'[u] = userCompletions[u]
     /\ \A u \in GuildMembers, f \in FlowTypes :
          (~userCompletions[u].has /\ userCompletions'[u].has /\ f \in userCompletions'[u].completions) =>
            (userCompletions'[u].completions = {f} /\ ~Completed(userCompletions'[u]))]_vars

\* a cleanup has just deleted the entry of a complete user and kept an entry
\* that is exactly 24 hours old
C18_Witness ==
  /\ ucmd.op = "cleanup"
  /\ \E u \in ucmd.removed : roles[u].builder /\ ~userCompletions[u].has
  /\ \E v \in GuildMembers : userCompletions[v].has /\ clock.now - userCompletions[v].timestamp = TtlHours

\* C19 as stated: a /ping-intro of an invoker without the moderator role
\* starts the intro flow for nobody, the invoker included, and schedules no
\* reminder.
C19_ModeratorGated ==
  [][(ping' # ping /\ ~ping'.mod) => (ping'.started = {} /\ reminders' = reminders)]_vars

\* ------------------------------------------------ reminder lifecycle
\* C29 as stated: when a handler that recorded a form in the user's
\* completion set finishes, by whichever path, the pair has no un-sent
\* reminder.
C29_CancelledOnCompletion ==
  [][\A h \in SubIds, u \in GuildMembers :
       (subs[h].pc # "idle" /\ subs[h].user = u /\ subs'[h].pc = "idle") =>
         Unsent(HomeGuild, u)' = {}]_vars

\* C30 as stated: every start of the intro flow for a user, by the member
\* joining or by /ping-intro, leaves the pair with an un-sent reminder, and a
\* reminder created by it is scheduled 24 hours ahead.
C30_CreatedOnFlowStart ==
  [][\A u \in GuildMembers :
       /\ (rcmd' # rcmd /\ rcmd'.op = "schedule" /\ rcmd'.userId = u) =>
            /\ Unsent(HomeGuild, u)' # {}
            /\ rcmd'.effect = "pushed" => robjs'[rcmd'.id].scheduledFor = clock.now + 24
       /\ (ping' # ping /\ u \in ping'.started) => Unsent(HomeGuild, u)' # {}]_vars

\* C33 as stated: while a user's completion set holds a form and every
\* handler of the user's submissions has finished, no sweep starts a
\* delivery of a reminder of that user.
C33_NoReminderAfterSubmission ==
  [][\A u \in GuildMembers, id \in ReminderIds :
       (/\ userCompletions[u].completions # {}
        /\ \A h \in SubIds : subs[h].user # u
        /\ robjs[id].userId = u /\ robjs[id].guildId = HomeGuild)
         => robjs'[id].tries = robjs[id].tries]_vars

\* C36: only the invited user can act on a form.  A button press or a modal
\* submission whose sender is not the target user of the custom id is refused
\* and changes nothing: no modal is shown, no completion recorded, no handler
\* started (so nothing is posted), no reminder cancelled, no role granted.
\* A completion for u is recorded, and a handler for u started, only by a
\* submission u sent; posts, cancellations and grants for u are made only by
\* such a handler.
C36_OnlyInvitedUserActs ==
  [][/\ (ucmd'.n = ucmd.n + 1 /\ ucmd'.sender # ucmd'.user) =>
          /\ ucmd'.op = "refused"
          /\ UNCHANGED <<userCompletions, subs, roles, rvars>>
     /\ ucmd'.op = "showModal" => ucmd'.sender = ucmd'.user
     /\ \A u \in GuildMembers :
          ~(userCompletions'[u].completions \subseteq userCompletions[u].completions) =>
            /\ ucmd'.n = ucmd.n + 1 /\ ucmd'.op = "submit"
            /\ ucmd'.user = u /\ ucmd'.sender = u
     /\ \A h \in SubIds :
          (subs[h].pc = "idle" /\ subs'[h].pc # "idle") =>
            /\ ucmd'.n = ucmd.n + 1 /\ ucmd'.op = "submit"
            /\ ucmd'.sender = subs'[h].user /\ ucmd'.user = subs'[h].user
     /\ \A u \in GuildMembers :
          roles'[u] # roles[u] => \E h \in SubIds : subs[h].pc # "idle" /\ subs[h].user = u
     /\ \A id \in ReminderIds :
          (robjs'[id].removed /\ ~robjs[id].removed) =>
            \E h \in SubIds : subs[h].pc = "posting" /\ subs[h].user = robjs[id].userId]_vars

\* a member other than the invited one has just been refused while the invited
\* user's reminder is pending and nothing is recorded for the invited user;
\* the sender's own form was recorded before
C36_Witness ==
  /\ ucmd.op = "refused" /\ ucmd.sender # ucmd.user
  /\ ~userCompletions[ucmd.user].has
  /\ Unsent(HomeGuild, ucmd.user) # {}
  /\ userCompletions[ucmd.sender].completions # {}

\* C38: retrying never duplicates a thread.  For every thread-creation task
\* message.startThread resolves at most once; the task is put back in the
\* queue only while its startThread has not resolved, by the rate-limit
\* branch; once startThread has resolved the task is neither re-queued nor
\* run again, whatever the reply does, and a task whose reply was rejected
\* ends as a task that succeeded.
C38_RetryNeverDuplicates ==
  /\ [](\A t \in TaskIds : tasks[t].starts <= 1)
  /\ [][\A t \in TaskIds :
          tasks[t].kind = "start" =>
            /\ tasks'[t].starts > tasks[t].starts => tasks[t].starts = 0
            /\ (tasks[t].st = "running" /\ tasks'[t].st = "queued") =>
                  /\ tasks[t].phase = "call" /\ tasks[t].starts = 0
                  /\ \E l \in LoopIds : loops[l].task = t /\ loops'[l].pc = "backoff"
            /\ tasks[t].phase = "reply" =>
                  /\ tasks'[t].st \in {"running", "ok"}
                  /\ tasks'[t].phase = "reply" /\ tasks'[t].starts = 1
            /\ tasks'[t].attempts > tasks[t].attempts =>
                  (tasks[t].starts = 0 /\ ~tasks[t].replyFailed)
            /\ (tasks'[t].replyFailed /\ ~tasks[t].replyFailed) => tasks'[t].st = "ok"]_vars

\* a task that was rate-limited in startThread and run again has created its
\* thread, and the rejection of its reply has ended it
C38_Witness ==
  \E t \in TaskIds :
    /\ tasks[t].kind = "start" /\ tasks[t].st = "ok"
    /\ tasks[t].limited >= 1 /\ tasks[t].attempts = tasks[t].limited + 1
    /\ tasks[t].starts = 1 /\ tasks[t].replyFailed
    /\ threads[tasks[t].msg].exists

NoBackoff == \A l \in LoopIds : loops[l].pc # "backoff"

=============================================================================
